---- MODULE Spec2Model ----
(***************************************************************************)
(* Model of the data harmonization and quality-scoring pipeline:           *)
(*   src/src/ingestion/multi_file_loader.py  (MultiFileDataLoader)         *)
(*   src/src/metrics/metrics_engine.py       (MetricsEngine)               *)
(*   src/src/metrics/dqi_calculator.py       (DataQualityIndex)            *)
(*                                                                         *)
(* A study directory is a record of report files.  Every report is either  *)
(* absent (no file matches the glob), unreadable (pd.read_excel raises) or *)
(* read as a sequence of rows.  The pipeline is deterministic; all the     *)
(* nondeterminism is the choice of the study directory in Init.            *)
(***************************************************************************)
EXTENDS Integers, Sequences, FiniteSets, TLC

VARIABLES
    study,            \* the report files of the study directory (never written)
    pc,               \* position of the pipeline run
    subject_master,   \* result of _load_subject_master (sequence of raw ids)
    agg,              \* the five aggregate tables of steps 2..6
    pages_df,         \* local df of _aggregate_missing_pages at its groupby
    consolidated,     \* table returned by load_study_data
    subject_metrics,  \* results["subject_metrics"] of calculate_all_metrics_for_study
    site_metrics,     \* results["site_metrics"] of calculate_all_metrics_for_study
    scored,           \* table returned by calculate_subject_dqi
    study_dqi,        \* outcome of calculate_study_dqi
    risk_report,      \* risk_summary of generate_risk_report
    metrics_cache,    \* MetricsEngine.metrics_cache[study_name]
    run,              \* 1 in the first run over the study directory, 2 in the second
    first_run,        \* the tables the first run produced
    df_columns,       \* headers of the frame given to standardize_column_names
    std_columns,      \* headers of the frame it returns
    subject_row,      \* the row given to assess_clean_patient_status
    is_clean,         \* what assess_clean_patient_status returned for it
    summary,          \* the dictionary get_study_summary returned
    assessment,       \* outcome of assess_interim_analysis_readiness
    subject_states,   \* event-driven variant: the SubjectState objects by subject_id
    event_bus         \* event-driven variant: the events collected so far

vars == <<study, pc, subject_master, agg, pages_df, consolidated, subject_metrics,
          site_metrics, scored, study_dqi, risk_report, metrics_cache, run, first_run,
          df_columns, std_columns, subject_row, is_clean, summary,
          assessment, subject_states, event_bus>>

\* the variables of the functions checked on their own and of the event-driven
\* variant, which the batch pipeline never touches
apart == <<subject_row, is_clean, summary, assessment, subject_states, event_bus>>

----------------------------------------------------------------------------
(* Bounds *)

\* rows and defects placed in the reports of a study directory
MaxItems == 2
\* rows of the missing-pages report in the page-focused directories
MaxPageRows == 2
\* rows of the visit-projection report in the page-focused directories
MaxVisitRows == 1
\* rows of a frame handed directly to the scoring functions
MaxDqiRows == 2
\* subjects of a consolidated table handed directly to the metrics engine
MaxTableRows == 2
\* columns of a frame handed to standardize_column_names
MaxHeaders == 2
\* rows of the directories whose identifier cells vary in their whitespace
MaxIdRows == 2

\* rows of the base table of the event-driven variant
MaxBaseRows == 2

\* rows of a report applied to the subject states
MaxReportRows == 2

----------------------------------------------------------------------------
(* Cell values *)

\* A raw subject identifier as read from a sheet: its type and its text.
Txt(s) == [ty |-> "str", txt |-> s]

\* Series.astype(str) on a subject identifier
AsStr(id) == id.txt

S1 == Txt("S1")
S2 == Txt("S2")
SubjectIds == {S1, S2}
\* the identifier of S1 as a cell with a leading blank
S1Padded == Txt(" S1")
\* the identifiers in ascending order (sorted(), groupby key order)
IdOrder == <<S1Padded, S1, S2>>

\* A cell of a count column: a number, a text, or blank.
Num(n) == [k |-> "num", n |-> n]
TextCell == [k |-> "text", n |-> 0]
Blank == [k |-> "blank", n |-> 0]

\* NaN / None is the empty tuple, a value v is <<v>>.
NaN == <<>>
IsNa(c) == c = <<>>

\* pd.to_numeric(errors='coerce') on one cell
ToNumeric(cell) == IF cell.k = "num" THEN <<cell.n>> ELSE NaN

\* Series.fillna(d) on one value
FillNa(c, d) == IF IsNa(c) THEN d ELSE c[1]

\* Series.str.lower() on the visit statuses of the model
Lower(s) ==
    CASE s = "Overdue" -> "overdue"
      [] s = "Future" -> "future"
      [] s = "Cancelled" -> "cancelled"
      [] OTHER -> s

----------------------------------------------------------------------------
(* Sequence helpers *)

Range(s) == {s[i] : i \in DOMAIN s}

\* the rows of a frame that belong to subject id
RowsOfSubject(rows, id) == SelectSeq(rows, LAMBDA r : r.subj = id)

\* the raw identifiers of a subject column
SubjectsOf(rows) == {rows[i].subj : i \in DOMAIN rows}

\* concatenation of a sequence of sequences
RECURSIVE Flatten(_)
Flatten(ss) == IF ss = <<>> THEN <<>> ELSE Head(ss) \o Flatten(Tail(ss))

\* sequences over S of length at most n
RECURSIVE SeqsUpTo(_, _)
SeqsUpTo(S, n) ==
    IF n = 0 THEN {<<>>}
    ELSE LET shorter == SeqsUpTo(S, n - 1)
         IN shorter \cup {Append(q, x) : q \in shorter, x \in S}

----------------------------------------------------------------------------
(* Exact arithmetic for the percentages and scores: q = <<numerator, denominator>> *)

RECURSIVE Gcd(_, _)
Gcd(a, b) == IF b = 0 THEN a ELSE Gcd(b, a % b)

Abs(n) == IF n < 0 THEN 0 - n ELSE n

Q(n, d) == LET g == Gcd(Abs(n), d) IN <<n \div g, d \div g>>
QInt(n) == <<n, 1>>
QAdd(a, b) == Q(a[1] * b[2] + b[1] * a[2], a[2] * b[2])
QSub(a, b) == Q(a[1] * b[2] - b[1] * a[2], a[2] * b[2])
QMul(a, b) == Q(a[1] * b[1], a[2] * b[2])
\* a / b for b > 0
QDiv(a, b) == Q(a[1] * b[2], a[2] * b[1])
QLe(a, b) == a[1] * b[2] <= b[1] * a[2]
QLt(a, b) == a[1] * b[2] < b[1] * a[2]
QEq(a, b) == a[1] * b[2] = b[1] * a[2]
QMax(a, b) == IF QLe(a, b) THEN b ELSE a
QMin(a, b) == IF QLe(a, b) THEN a ELSE b
\* Series.clip(lo, hi)
QClip(a, lo, hi) == QMin(QMax(a, lo), hi)

Q0 == QInt(0)
Q100 == QInt(100)

\* round(q, 2): to the nearest hundredth, ties to the even hundredth
Round2(q) ==
    LET x == 100 * q[1]
        fl == x \div q[2]
        rem == x % q[2]
        up == \/ 2 * rem > q[2]
              \/ (2 * rem = q[2] /\ fl % 2 = 1)
    IN Q(IF up THEN fl + 1 ELSE fl, 100)

\* largest value of a column of whole numbers (Series.max())
RECURSIVE MaxOf(_)
MaxOf(xs) ==
    IF Len(xs) = 1 THEN xs[1]
    ELSE LET m == MaxOf(Tail(xs)) IN IF xs[1] >= m THEN xs[1] ELSE m

RECURSIVE SumOf(_)
SumOf(xs) == IF xs = <<>> THEN 0 ELSE Head(xs) + SumOf(Tail(xs))

----------------------------------------------------------------------------
(* Report files *)

NoRows == <<>>

EdcRow(s, site, c) == [subj |-> s, site |-> site, sdv |-> c]
VisitRow(s, v, st) == [subj |-> s, visit |-> v, status |-> st]
PageRow(s, v, f) == [subj |-> s, visit |-> v, form |-> f]
EdrrRow(s, c) == [subj |-> s, cnt |-> c]
SaeRow(s) == [subj |-> s]
CodingRow(s, st) == [subj |-> s, status |-> st]

ReportNames == {"edc", "visit", "pages", "inact", "edrr", "sae", "meddra", "whodd"}

\* One thing placed in a study directory: a row of a report, or a defect of
\* a report file (unreadable, or no resolvable subject column).
Item(rep, kind, s, v, f, st, c) ==
    [rep |-> rep, kind |-> kind, subj |-> s, visit |-> v, form |-> f,
     status |-> st, cell |-> c]

RowItem(rep, s, v, f, st, c) == Item(rep, "row", s, v, f, st, c)
Defect(rep, kind) == Item(rep, kind, S1, "-", "-", "-", Blank)

ItemsOf(items, rep) == SelectSeq(items, LAMBDA it : it.rep = rep)
RowItemsOf(items, rep) == SelectSeq(items, LAMBDA it : it.rep = rep /\ it.kind = "row")
HasDefect(items, rep, kind) ==
    \E i \in DOMAIN items : items[i].rep = rep /\ items[i].kind = kind

\* glob + pd.read_excel: absent, raises, or returns a frame
FileState(items, rep) ==
    IF HasDefect(items, rep, "error") THEN "error"
    ELSE IF ItemsOf(items, rep) = <<>> THEN "absent"
    ELSE "ok"

\* a count column exists in the sheet when some row has a value in it
HasColumn(its) == \E i \in DOMAIN its : its[i].cell.k # "blank"

\* The study directory that holds the given items.
MkStudy(items) ==
    LET e == RowItemsOf(items, "edc")
        v == RowItemsOf(items, "visit")
        p == RowItemsOf(items, "pages")
        n == RowItemsOf(items, "inact")
        q == RowItemsOf(items, "edrr")
        a == RowItemsOf(items, "sae")
        m == RowItemsOf(items, "meddra")
        w == RowItemsOf(items, "whodd")
        subjCol(rep) == ~HasDefect(items, rep, "nosubj")
    IN [edc |-> [st |-> FileState(items, "edc"), hasSubj |-> subjCol("edc"),
                 hasSite |-> TRUE, hasSdv |-> HasColumn(e),
                 rows |-> [i \in DOMAIN e |-> EdcRow(e[i].subj, "A", e[i].cell)]],
        visit |-> [st |-> FileState(items, "visit"), hasSubj |-> subjCol("visit"),
                   visitCol |-> TRUE, statusCol |-> TRUE,
                   rows |-> [i \in DOMAIN v |-> VisitRow(v[i].subj, v[i].visit, v[i].status)]],
        pages |-> [st |-> FileState(items, "pages"), hasSubj |-> subjCol("pages"),
                   visitCol |-> TRUE, formCol |-> TRUE,
                   rows |-> [i \in DOMAIN p |-> PageRow(p[i].subj, p[i].visit, p[i].form)]],
        inact |-> [st |-> FileState(items, "inact"), formCol |-> subjCol("inact"),
                   forms |-> [i \in DOMAIN n |-> n[i].form]],
        edrr |-> [st |-> FileState(items, "edrr"), hasSubj |-> subjCol("edrr"),
                  hasCount |-> HasColumn(q),
                  rows |-> [i \in DOMAIN q |-> EdrrRow(q[i].subj, q[i].cell)]],
        sae |-> [st |-> FileState(items, "sae"), hasSubj |-> subjCol("sae"),
                 rows |-> [i \in DOMAIN a |-> SaeRow(a[i].subj)]],
        meddra |-> [st |-> FileState(items, "meddra"), hasSubj |-> subjCol("meddra"),
                    hasStatus |-> TRUE,
                    rows |-> [i \in DOMAIN m |-> CodingRow(m[i].subj, m[i].status)]],
        whodd |-> [st |-> FileState(items, "whodd"), hasSubj |-> subjCol("whodd"),
                   hasStatus |-> TRUE,
                   rows |-> [i \in DOMAIN w |-> CodingRow(w[i].subj, w[i].status)]]]

\* The rows and defects a study directory is assembled from.
SdvCells == {Blank, Num(-1), Num(1), TextCell}
CountCells == {Blank, Num(-2), Num(1), TextCell}

RowItems ==
    {RowItem("edc", s, "-", "-", "-", c) : s \in SubjectIds, c \in SdvCells}
    \cup {RowItem("visit", s, "V1", "-", st, Blank) : s \in SubjectIds, st \in {"Overdue", "Future"}}
    \cup {RowItem("pages", s, v, "F1", "-", Blank) : s \in SubjectIds, v \in {"V1", "V2"}}
    \cup {RowItem("inact", S1, "-", "F1", "-", Blank)}
    \cup {RowItem("edrr", s, "-", "-", "-", c) : s \in SubjectIds, c \in CountCells}
    \cup {RowItem("sae", s, "-", "-", "-", Blank) : s \in SubjectIds}
    \cup {RowItem("meddra", s, "-", "-", st, Blank) : s \in SubjectIds, st \in {"Coded Term", "Uncoded"}}
    \cup {RowItem("whodd", s, "-", "-", "Uncoded", Blank) : s \in SubjectIds}

Defects == {Defect(rep, k) : rep \in ReportNames, k \in {"error", "nosubj"}}

\* study directories of the pipeline runs
Studies == {MkStudy(items) : items \in SeqsUpTo(RowItems \cup Defects, MaxItems)}

----------------------------------------------------------------------------
(* MultiFileDataLoader: step 1, the subject master *)

\* _find_subject_column finds a column in a frame that was read
Usable(rep) == rep.st = "ok" /\ rep.hasSubj

\* result of _load_subject_master: None, or a frame of (subject_id, site_id)
NoMaster == [none |-> TRUE, rows |-> <<>>]
MasterOf(rows) == [none |-> FALSE, rows |-> rows]

\* DataFrame.drop_duplicates(subset=['subject_id']): first occurrences, in order
RECURSIVE DropDuplicates(_)
DropDuplicates(rows) ==
    IF rows = <<>> THEN <<>>
    ELSE LET init == DropDuplicates(SubSeq(rows, 1, Len(rows) - 1))
             last == rows[Len(rows)]
         IN IF \E i \in DOMAIN init : init[i].subject_id = last.subject_id
            THEN init ELSE Append(init, last)

\* an order that would follow the iteration order of the set, which a second
\* run need not repeat
Sorted_ByRun(S) ==
    LET ascending == SelectSeq(IdOrder, LAMBDA id : id \in S)
    IN IF run = 2
       THEN [i \in DOMAIN ascending |-> ascending[Len(ascending) + 1 - i]]
       ELSE ascending

\* sorted(list(all_subjects))
Sorted(S) == SelectSeq(IdOrder, LAMBDA id : id \in S)

\* _fallback_subject_master: union over Missing_Pages, Visit Projection, EDRR, SAE
FallbackSubjectMaster(st) ==
    LET seen(rep) == IF Usable(rep) THEN SubjectsOf(rep.rows) ELSE {}
        all_subjects == seen(st.pages) \cup seen(st.visit) \cup seen(st.edrr) \cup seen(st.sae)
        ids == Sorted(all_subjects)
    IN IF all_subjects = {} THEN NoMaster
       ELSE MasterOf([i \in DOMAIN ids |-> [subject_id |-> ids[i], site_id |-> NaN]])

\* _load_subject_master
LoadSubjectMasterOf(st) ==
    IF st.edc.st = "absent" THEN FallbackSubjectMaster(st)
    ELSE IF st.edc.st = "error" THEN NoMaster
    ELSE IF ~st.edc.hasSubj THEN NoMaster
    ELSE MasterOf(DropDuplicates(
            [i \in DOMAIN st.edc.rows |->
                [subject_id |-> st.edc.rows[i].subj,
                 site_id |-> IF st.edc.hasSite THEN <<st.edc.rows[i].site>> ELSE NaN]]))

----------------------------------------------------------------------------
(* MultiFileDataLoader: steps 2..6, the domain aggregators *)

\* pd.DataFrame(columns=[...]): a frame without rows
EmptyFrame == <<>>

\* df.groupby(subject_col).size().reset_index(): one row per subject, key order
GroupBySize(rows) ==
    LET keys == Sorted(SubjectsOf(rows))
    IN [i \in DOMAIN keys |->
            [subject_id |-> keys[i], val |-> Len(RowsOfSubject(rows, keys[i]))]]

\* _aggregate_missing_visits
AggregateMissingVisits(st) ==
    IF st.visit.st = "absent" THEN EmptyFrame
    ELSE IF st.visit.st = "error" THEN EmptyFrame
    ELSE IF ~st.visit.hasSubj THEN EmptyFrame
    ELSE GroupBySize(st.visit.rows)

FutureStatuses == {"future", "not scheduled", "cancelled", "not required", "skipped"}

\* _get_due_visits: the (subject_id, visit_name) rows that are due
GetDueVisits(st) ==
    IF st.visit.st = "absent" THEN EmptyFrame
    ELSE IF st.visit.st = "error" THEN EmptyFrame
    ELSE IF ~st.visit.hasSubj THEN EmptyFrame
    ELSE IF ~st.visit.visitCol THEN EmptyFrame
    ELSE LET kept == IF st.visit.statusCol
                     THEN SelectSeq(st.visit.rows,
                                    LAMBDA r : Lower(r.status) \notin FutureStatuses)
                     ELSE st.visit.rows
         IN [i \in DOMAIN kept |->
                [subject_id |-> kept[i].subj, visit_name |-> kept[i].visit]]

\* set(inact_df[form_cols[0]].dropna().unique()); a failed read leaves the set empty
InactivatedForms(st) ==
    IF st.inact.st = "ok" /\ st.inact.formCol THEN Range(st.inact.forms) ELSE {}

\* df[~df[form_cols[0]].isin(inactivated_forms)]
ExcludeInactivated(st, rows) ==
    IF st.pages.formCol /\ InactivatedForms(st) # {}
    THEN SelectSeq(rows, LAMBDA r : r.form \notin InactivatedForms(st))
    ELSE rows

\* the '_key' column: subject as text, '_', visit as text
DueKey(id, visit) == <<AsStr(id), visit>>

\* a filter that would match the subject alone and keep rows of any visit
DueFilter_BySubject(rows, due) ==
    LET subjects == {AsStr(due[i].subject_id) : i \in DOMAIN due}
    IN SelectSeq(rows, LAMBDA r : AsStr(r.subj) \in subjects)

\* df[df['_key'].isin(due_visits['_key'])]
DueFilter(rows, due) ==
    LET keys == {DueKey(due[i].subject_id, due[i].visit_name) : i \in DOMAIN due}
    IN SelectSeq(rows, LAMBDA r : DueKey(r.subj, r.visit) \in keys)

\* a reload that would skip the inactivation exclusion
DueFallback_Unfiltered(st) == st.pages.rows

\* a reload that would give up and count nothing
DueFallback_Empty(st) == EmptyFrame

\* the reload after the due-visit filter removed every row
DueFallback(st) == ExcludeInactivated(st, st.pages.rows)

\* the frame _aggregate_missing_pages counts: its df at the groupby
MissingPagesFrame(st) ==
    IF st.pages.st = "absent" THEN EmptyFrame
    ELSE IF st.pages.st = "error" THEN EmptyFrame
    ELSE IF ~st.pages.hasSubj THEN EmptyFrame
    ELSE LET df == ExcludeInactivated(st, st.pages.rows)
             due_visits == GetDueVisits(st)
         IN IF due_visits # EmptyFrame
            THEN IF st.pages.visitCol
                 THEN LET kept == DueFilter(df, due_visits)
                      IN IF Len(kept) = 0 THEN DueFallback(st) ELSE kept
                 ELSE df
            ELSE df

\* _aggregate_missing_pages
AggregateMissingPages(st) == GroupBySize(MissingPagesFrame(st))

\* GroupBy.first(): the first non-null cell of a group
FirstNonNull(cells) ==
    LET filled == SelectSeq(cells, LAMBDA c : c.k # "blank")
    IN IF filled = <<>> THEN Blank ELSE Head(filled)

\* EDRR frame of _aggregate_open_queries (explicit count column, else row count)
EdrrQueries(st) ==
    IF st.edrr.hasCount
    THEN LET keys == Sorted(SubjectsOf(st.edrr.rows))
             cellsOf(id) == LET rs == RowsOfSubject(st.edrr.rows, id)
                            IN [i \in DOMAIN rs |-> rs[i].cnt]
         IN [i \in DOMAIN keys |->
                [subject_id |-> keys[i],
                 val |-> FillNa(ToNumeric(FirstNonNull(cellsOf(keys[i]))), 0)]]
    ELSE GroupBySize(st.edrr.rows)

\* df[df['Coding Status'] != 'Coded Term']
Uncoded(rows) == SelectSeq(rows, LAMBDA r : r.status # "Coded Term")

\* value of subject id in a frame, NaN when the frame has no row for it
ValueOf(frame, id) ==
    LET m == SelectSeq(frame, LAMBDA a : a.subject_id = id)
    IN IF m = <<>> THEN NaN ELSE <<m[1].val>>

RECURSIVE SumFilled(_, _)
SumFilled(frames, id) ==
    IF frames = <<>> THEN 0
    ELSE FillNa(ValueOf(Head(frames), id), 0) + SumFilled(Tail(frames), id)

\* outer merges of all_queries on subject_id, fillna(0), row sum
CombineQueries(all_queries) ==
    LET ids == UNION {{all_queries[k][i].subject_id : i \in DOMAIN all_queries[k]}
                         : k \in DOMAIN all_queries}
        keys == Sorted(ids)
    IN [i \in DOMAIN keys |->
            [subject_id |-> keys[i], val |-> SumFilled(all_queries, keys[i])]]

\* the frames appended to all_queries when no read raises
QueryFrames(st) ==
    LET edrr == IF st.edrr.st = "ok" /\ st.edrr.hasSubj
                THEN <<EdrrQueries(st)>> ELSE <<>>
        sae == IF st.sae.st = "ok" /\ st.sae.hasSubj
               THEN <<GroupBySize(st.sae.rows)>> ELSE <<>>
        coding(rep) == IF rep.st = "ok" /\ rep.hasSubj /\ rep.hasStatus
                          /\ Uncoded(rep.rows) # <<>>
                       THEN <<GroupBySize(Uncoded(rep.rows))>> ELSE <<>>
    IN edrr \o sae \o coding(st.meddra) \o coding(st.whodd)

\* _aggregate_open_queries: one try block around the reads of all four files
AggregateOpenQueries(st) ==
    IF \E rep \in {st.edrr, st.sae, st.meddra, st.whodd} : rep.st = "error"
    THEN EmptyFrame
    ELSE IF QueryFrames(st) = <<>> THEN EmptyFrame
    ELSE CombineQueries(QueryFrames(st))

\* _aggregate_pending_sdv: one row per row of the EDC sheet
AggregatePendingSdv(st) ==
    IF st.edc.st = "error" THEN EmptyFrame
    ELSE IF st.edc.st = "ok" /\ st.edc.hasSubj /\ st.edc.hasSdv
    THEN [i \in DOMAIN st.edc.rows |->
            [subject_id |-> st.edc.rows[i].subj,
             val |-> FillNa(ToNumeric(st.edc.rows[i].sdv), 0)]]
    ELSE EmptyFrame

\* _aggregate_safety_issues
AggregateSafetyIssues(st) ==
    IF st.sae.st = "absent" THEN EmptyFrame
    ELSE IF st.sae.st = "error" THEN EmptyFrame
    ELSE IF ~st.sae.hasSubj THEN EmptyFrame
    ELSE GroupBySize(st.sae.rows)

NoAggregates ==
    [missing_visits |-> EmptyFrame, missing_pages |-> EmptyFrame,
     open_queries |-> EmptyFrame, pending_sdv |-> EmptyFrame,
     open_safety_issues |-> EmptyFrame]

\* steps 2..6 of load_study_data
AggregatesOf(st) ==
    [missing_visits |-> AggregateMissingVisits(st),
     missing_pages |-> AggregateMissingPages(st),
     open_queries |-> AggregateOpenQueries(st),
     pending_sdv |-> AggregatePendingSdv(st),
     open_safety_issues |-> AggregateSafetyIssues(st)]

----------------------------------------------------------------------------
(* MultiFileDataLoader: steps 7 and 8 *)

MetricCols == <<"missing_visits", "missing_pages", "open_queries", "pending_sdv",
                "open_safety_issues">>

\* consolidated.merge(metric_df, on='subject_id', how='left'), keys as text
LeftMerge(tbl, frame, col) ==
    Flatten([i \in DOMAIN tbl |->
        LET m == SelectSeq(frame, LAMBDA a : AsStr(a.subject_id) = tbl[i].subject_id)
        IN IF m = <<>> THEN <<tbl[i] @@ (col :> NaN)>>
           ELSE [j \in DOMAIN m |-> tbl[i] @@ (col :> <<m[j].val>>)]])

\* consolidated[metric_name] = 0
ZeroColumn(tbl, col) == [i \in DOMAIN tbl |-> tbl[i] @@ (col :> <<0>>)]

\* one pass of the loop of _join_all_metrics
JoinMetric(tbl, frame, col) ==
    IF frame # EmptyFrame THEN LeftMerge(tbl, frame, col) ELSE ZeroColumn(tbl, col)

\* consolidated[col].fillna(0).astype(int), for the five metric columns
FillMetrics(tbl) ==
    [i \in DOMAIN tbl |->
        [subject_id |-> tbl[i].subject_id,
         site_id |-> tbl[i].site_id,
         missing_visits |-> FillNa(tbl[i].missing_visits, 0),
         missing_pages |-> FillNa(tbl[i].missing_pages, 0),
         open_queries |-> FillNa(tbl[i].open_queries, 0),
         pending_sdv |-> FillNa(tbl[i].pending_sdv, 0),
         open_safety_issues |-> FillNa(tbl[i].open_safety_issues, 0)]]

\* _join_all_metrics
JoinAllMetricsOf(master, a) ==
    LET t0 == [i \in DOMAIN master.rows |->
                  [subject_id |-> AsStr(master.rows[i].subject_id),
                   site_id |-> master.rows[i].site_id]]
        t1 == JoinMetric(t0, a.missing_visits, "missing_visits")
        t2 == JoinMetric(t1, a.missing_pages, "missing_pages")
        t3 == JoinMetric(t2, a.open_queries, "open_queries")
        t4 == JoinMetric(t3, a.pending_sdv, "pending_sdv")
        t5 == JoinMetric(t4, a.open_safety_issues, "open_safety_issues")
    IN FillMetrics(t5)

\* a clean-patient rule that would leave pending_sdv out
IsCleanPatient_IgnoringSdv(r) ==
    /\ r.missing_visits = 0
    /\ r.missing_pages = 0
    /\ r.open_queries = 0
    /\ r.open_safety_issues = 0

\* the clean-patient rule of _calculate_clean_patient_flag, for one row
IsCleanPatient(r) ==
    /\ r.missing_visits = 0
    /\ r.missing_pages = 0
    /\ r.open_queries = 0
    /\ r.pending_sdv = 0
    /\ r.open_safety_issues = 0

\* _calculate_clean_patient_flag
CleanPatientFlagOf(tbl) ==
    [i \in DOMAIN tbl |->
        [subject_id |-> tbl[i].subject_id,
         site_id |-> tbl[i].site_id,
         missing_visits |-> tbl[i].missing_visits,
         missing_pages |-> tbl[i].missing_pages,
         open_queries |-> tbl[i].open_queries,
         pending_sdv |-> tbl[i].pending_sdv,
         open_safety_issues |-> tbl[i].open_safety_issues,
         is_clean_patient |-> IsCleanPatient(tbl[i])]]

----------------------------------------------------------------------------
(* MetricsEngine *)

\* the normalised percentage of calculate_completeness_metrics for one count:
\* count / max_val * 100 when max_val > 0, else 0 (no total_* column exists)
PctOfMax(count, max_val) ==
    IF max_val > 0 THEN QDiv(QInt(count * 100), QInt(max_val)) ELSE Q0

\* 100 - (pct_missing_visits + pct_missing_pages) / 2, clipped to [0, 100]
CompletenessScore(pv, pp) ==
    QClip(QSub(Q100, QDiv(QAdd(pv, pp), QInt(2))), Q0, Q100)

\* np.where(total_queries > 0, closed_queries / total_queries * 100, 100)
QueryResolutionRate(closed, total) ==
    IF total > 0 THEN QDiv(QInt(closed * 100), QInt(total)) ELSE Q100

\* calculate_completeness_metrics, calculate_query_metrics, calculate_sdv_metrics
\* and calculate_clean_patients applied to the consolidated table
SubjectMetricsOf(tbl) ==
    LET max_visits == MaxOf([i \in DOMAIN tbl |-> tbl[i].missing_visits])
        max_pages == MaxOf([i \in DOMAIN tbl |-> tbl[i].missing_pages])
    IN [i \in DOMAIN tbl |->
         LET r == tbl[i]
             pv == PctOfMax(r.missing_visits, max_visits)
             pp == PctOfMax(r.missing_pages, max_pages)
             closed == 0
             total == r.open_queries + closed
         IN [subject_id |-> r.subject_id,
             site_id |-> r.site_id,
             missing_visits |-> r.missing_visits,
             missing_pages |-> r.missing_pages,
             open_queries |-> r.open_queries,
             pending_sdv |-> r.pending_sdv,
             open_safety_issues |-> r.open_safety_issues,
             is_clean_patient |-> r.is_clean_patient,
             pct_missing_visits |-> pv,
             pct_missing_pages |-> pp,
             completeness_score |-> CompletenessScore(pv, pp),
             closed_queries |-> closed,
             total_queries |-> total,
             query_resolution_rate |-> QueryResolutionRate(closed, total),
             high_query_burden |-> r.open_queries > 5,
             sdv_complete |-> FALSE,
             pct_sdv_complete |-> 0]]

\* the site_id values of the table in key order, None/NaN keys dropped by groupby
SiteOrder == <<"A", "B">>
SiteKeys(tbl) ==
    SelectSeq(SiteOrder, LAMBDA k : \E i \in DOMAIN tbl : tbl[i].site_id = <<k>>)

\* a score that would not divide the weighted findings by the subject count
PerformanceScore_Unnormalised(n, visits, pages, queries) ==
    QClip(QSub(Q100, QInt(visits * 2 + pages * 1 + queries * 3)), Q0, Q100)

\* the weighted findings per subject subtracted from 100, clipped to [0, 100]
PerformanceScore(n, visits, pages, queries) ==
    QClip(QSub(Q100, QDiv(QInt(visits * 2 + pages * 1 + queries * 3), QInt(n))),
          Q0, Q100)

\* calculate_site_performance_metrics on raw_data[study_name]
SitePerformanceMetricsOf(tbl) ==
    LET keys == SiteKeys(tbl)
    IN [k \in DOMAIN keys |->
         LET rs == SelectSeq(tbl, LAMBDA r : r.site_id = <<keys[k]>>)
             visits == SumOf([i \in DOMAIN rs |-> rs[i].missing_visits])
             pages == SumOf([i \in DOMAIN rs |-> rs[i].missing_pages])
             queries == SumOf([i \in DOMAIN rs |-> rs[i].open_queries])
         IN [site_id |-> keys[k],
             subject_count |-> Len(rs),
             total_missing_visits |-> visits,
             total_missing_pages |-> pages,
             total_open_queries |-> queries,
             performance_score |-> PerformanceScore(Len(rs), visits, pages, queries)]]

----------------------------------------------------------------------------
(* DataQualityIndex *)

\* DQI_WEIGHTS, in hundredths
DqiWeights ==
    [safety_issues |-> 35, missing_visits |-> 25, open_queries |-> 20,
     missing_pages |-> 10, coding_delays |-> 5, sdv_incomplete |-> 5]

\* A column of the row given to the calculator: not in the index, null, or a value.
NoCol == [k |-> "absent"]
NullCol == [k |-> "null"]
Col(v) == [k |-> "val", v |-> v]
\* "name" in subject_row.index and pd.notna(subject_row["name"])
Has(c) == c.k = "val"

\* the Series view of a row of the frame given to the calculator; a field the
\* row lacks is a column that is not in the index (or holds a null)
SeriesOf(r) ==
    LET count(f) == IF f \in DOMAIN r THEN Col(QInt(r[f])) ELSE NoCol
        value(f) == IF f \in DOMAIN r THEN Col(r[f]) ELSE NoCol
    IN [open_safety_issues |-> count("open_safety_issues"),
        pct_missing_visits |-> value("pct_missing_visits"),
        missing_visits |-> count("missing_visits"),
        open_queries |-> count("open_queries"),
        pct_missing_pages |-> value("pct_missing_pages"),
        missing_pages |-> count("missing_pages"),
        sdv_complete |-> value("sdv_complete"),
        completeness_score |-> value("completeness_score"),
        query_resolution_rate |-> value("query_resolution_rate")]

Score(name, q) == <<[name |-> name, score |-> q]>>

\* max(0, 100 - min(100, count * points))
CountPenaltyScore(count, points) ==
    QMax(Q0, QSub(Q100, QMin(Q100, QMul(count, QInt(points)))))

\* calculate_component_scores: the dict of component scores, in insertion order
CalculateComponentScores(row) ==
    (IF Has(row.open_safety_issues)
     THEN Score("safety_issues",
                QMax(Q0, QSub(Q100, QMul(row.open_safety_issues.v, QInt(20)))))
     ELSE <<>>)
    \o (IF Has(row.pct_missing_visits)
        THEN Score("missing_visits", QMax(Q0, QSub(Q100, row.pct_missing_visits.v)))
        ELSE IF Has(row.missing_visits)
        THEN Score("missing_visits", CountPenaltyScore(row.missing_visits.v, 5))
        ELSE <<>>)
    \o (IF Has(row.open_queries)
        THEN Score("open_queries", CountPenaltyScore(row.open_queries.v, 10))
        ELSE <<>>)
    \o (IF Has(row.pct_missing_pages)
        THEN Score("missing_pages", QMax(Q0, QSub(Q100, row.pct_missing_pages.v)))
        ELSE IF Has(row.missing_pages)
        THEN Score("missing_pages", CountPenaltyScore(row.missing_pages.v, 2))
        ELSE <<>>)
    \o (IF Has(row.sdv_complete)
        THEN Score("sdv_incomplete", IF row.sdv_complete.v THEN Q100 ELSE QInt(50))
        ELSE <<>>)
    \o (IF Has(row.completeness_score)
        THEN Score("completeness", row.completeness_score.v)
        ELSE <<>>)
    \o (IF Has(row.query_resolution_rate)
        THEN Score("query_resolution", row.query_resolution_rate.v)
        ELSE <<>>)

\* self.weights.get(component, 1.0 / len(component_scores))
WeightOf(name, n) ==
    IF name \in DOMAIN DqiWeights THEN Q(DqiWeights[name], 100) ELSE Q(1, n)

RECURSIVE QSum(_)
QSum(qs) == IF qs = <<>> THEN Q0 ELSE QAdd(Head(qs), QSum(Tail(qs)))

\* calculate_dqi_score: None (NaN), or the weighted average rounded to 2 places
CalculateDqiScore(component_scores) ==
    IF component_scores = <<>> THEN NaN
    ELSE LET n == Len(component_scores)
             w(i) == WeightOf(component_scores[i].name, n)
             total_score == QSum([i \in DOMAIN component_scores |->
                                     QMul(component_scores[i].score, w(i))])
             total_weight == QSum([i \in DOMAIN component_scores |-> w(i)])
         IN IF QEq(total_weight, Q0) THEN NaN
            ELSE <<Round2(QDiv(total_score, total_weight))>>

\* RISK_THRESHOLDS
RiskHigh == 70
RiskMedium == 85

\* a classification that would put the boundary values in the lower tier
ClassifyRiskLevel_Strict(dqi_score) ==
    IF QLt(QInt(85), dqi_score) THEN "Low"
    ELSE IF QLt(QInt(70), dqi_score) THEN "Medium"
    ELSE "High"

\* classify_risk_level
ClassifyRiskLevel(dqi_score) ==
    IF QLe(QInt(RiskMedium), dqi_score) THEN "Low"
    ELSE IF QLe(QInt(RiskHigh), dqi_score) THEN "Medium"
    ELSE "High"

\* cs.get(component, 0) for the dqi_component_* columns
ComponentOrZero(component_scores, name) ==
    LET m == SelectSeq(component_scores, LAMBDA c : c.name = name)
    IN IF m = <<>> THEN Q0 ELSE m[1].score

\* calculate_subject_dqi
SubjectDqiOf(tbl) ==
    [i \in DOMAIN tbl |->
        LET components == CalculateComponentScores(SeriesOf(tbl[i]))
            dqi == CalculateDqiScore(components)
        IN [row |-> tbl[i],
            components |-> components,
            dqi_score |-> dqi,
            risk_level |-> IF IsNa(dqi) THEN "Unknown" ELSE ClassifyRiskLevel(dqi[1]),
            dqi_component |->
                [name \in DOMAIN DqiWeights |-> ComponentOrZero(components, name)]]]

\* load_study_data: None, or the consolidated table with the clean flag
NoTable == [none |-> TRUE, table |-> <<>>]
LoadStudyDataOf(st) ==
    LET master == LoadSubjectMasterOf(st)
    IN IF master.none \/ master.rows = <<>> THEN NoTable
       ELSE [none |-> FALSE,
             table |-> CleanPatientFlagOf(JoinAllMetricsOf(master, AggregatesOf(st)))]

----------------------------------------------------------------------------
(* MetricsEngine: standardize_column_names *)

UpperCase == "ABCDEFGHIJKLMNOPQRSTUVWXYZ"
LowerCase == "abcdefghijklmnopqrstuvwxyz"

\* str.lower() on one character
LowerChar(c) ==
    IF \E i \in 1..Len(UpperCase) : SubSeq(UpperCase, i, i) = c
    THEN LET i == CHOOSE j \in 1..Len(UpperCase) : SubSeq(UpperCase, j, j) = c
         IN SubSeq(LowerCase, i, i)
    ELSE c

\* str.lower(): every character lower-cased, the string taken by halves
RECURSIVE StrLower(_)
StrLower(str) ==
    IF Len(str) = 0 THEN ""
    ELSE IF Len(str) = 1 THEN LowerChar(str)
    ELSE StrLower(SubSeq(str, 1, Len(str) \div 2))
            \o StrLower(SubSeq(str, Len(str) \div 2 + 1, Len(str)))

\* str.strip() of blanks
RECURSIVE Strip(_)
Strip(str) ==
    IF Len(str) = 0 THEN ""
    ELSE IF SubSeq(str, 1, 1) = " " THEN Strip(SubSeq(str, 2, Len(str)))
    ELSE IF SubSeq(str, Len(str), Len(str)) = " " THEN Strip(SubSeq(str, 1, Len(str) - 1))
    ELSE str

\* part in whole
Contains(whole, part) ==
    \E i \in 1..(Len(whole) - Len(part) + 1) : SubSeq(whole, i, i + Len(part) - 1) = part

\* COLUMN_MAPPINGS, in declaration order
ColumnMappings == <<
    [name |-> "subject_id",
     variations |-> <<"Subject ID", "Subject", "SubjectID", "Patient ID", "SUBJID", "subject_id">>],
    [name |-> "site_id",
     variations |-> <<"Site ID", "Site", "SiteID", "Site Number", "site_id">>],
    [name |-> "study_id",
     variations |-> <<"Study ID", "Study", "StudyID", "Protocol", "Project Name">>],
    [name |-> "visit_name",
     variations |-> <<"Visit", "Visit Name", "VisitName", "Latest Visit">>],
    [name |-> "region", variations |-> <<"Region">>],
    [name |-> "country", variations |-> <<"Country">>],
    [name |-> "status", variations |-> <<"Status", "Subject Status", "SubjectStatus">>],
    [name |-> "missing_visits",
     variations |-> <<"Missing Visits", "Input files - Missing Visits">>],
    [name |-> "missing_pages",
     variations |-> <<"Missing Page", "Missing Pages", "Input files - Missing Page">>],
    [name |-> "open_queries",
     variations |-> <<"# Open Queries", "Open Queries", "#Total Queries", "# DM Queries",
                      "Total Queries">>],
    [name |-> "closed_queries", variations |-> <<"# Closed Queries", "Closed Queries">>],
    [name |-> "total_queries", variations |-> <<"#Total Queries", "Total Queries", "#Total">>],
    [name |-> "coded_terms", variations |-> <<"# Coded terms", "Coded terms">>],
    [name |-> "uncoded_terms", variations |-> <<"# Uncoded Terms", "Uncoded Terms">>],
    [name |-> "open_lnr_issues", variations |-> <<"# Open issues in LNR", "Open LNR">>],
    [name |-> "inactivated_forms",
     variations |-> <<"Inactivated forms and folders", "Inactivated Forms">>],
    [name |-> "sae_review", variations |-> <<"# eSAE dashboard review for DM", "SAE Review">>],
    [name |-> "broken_signatures", variations |-> <<"Broken Signatures">>],
    [name |-> "never_signed", variations |-> <<"CRFs Never Signed", "Never Signed">>],
    [name |-> "pages_entered", variations |-> <<"# Pages Entered", "Pages Entered">>],
    [name |-> "expected_visits", variations |-> <<"# Expected Visits", "Expected Visits">>],
    [name |-> "forms_verified", variations |-> <<"# Forms Verified", "Forms Verified">>],
    [name |-> "crfs_frozen", variations |-> <<"# CRFs Frozen", "CRFs Frozen">>],
    [name |-> "crfs_locked", variations |-> <<"# CRFs Locked", "CRFs Locked">>] >>

\* a test that would accept a synonym contained in the header as an exact match
ExactMatch_Loose(col_lower, variation) ==
    Contains(col_lower, StrLower(variation))

\* col_lower == variation.lower()
ExactMatch(col_lower, variation) == col_lower = StrLower(variation)

\* variation_lower in col_lower and len(variation_lower) > 3
SubstringMatch(col_lower, variation) ==
    LET variation_lower == StrLower(variation)
    IN Contains(col_lower, variation_lower) /\ Len(variation_lower) > 3

\* col_lower = str(col).strip().lower()
ColLower(col) == StrLower(Strip(col))

\* renamed_cols is the dict of (column, standard name) items
RenamedKeys(renamed_cols) == {item[1] : item \in renamed_cols}

\* renamed_cols[col] = standard_name for the columns in hit
Renamed(renamed_cols, hit, name) == renamed_cols \cup {<<c, name>> : c \in hit}

\* first pass, from the k-th standard name on: exact matches only
RECURSIVE FirstPass(_, _, _)
FirstPass(columns, renamed_cols, k) ==
    IF k > Len(ColumnMappings) THEN renamed_cols
    ELSE LET variations == ColumnMappings[k].variations
             hit == {c \in Range(columns) \ RenamedKeys(renamed_cols) :
                        LET col_lower == ColLower(c)
                        IN \E v \in DOMAIN variations : ExactMatch(col_lower, variations[v])}
         IN FirstPass(columns, Renamed(renamed_cols, hit, ColumnMappings[k].name), k + 1)

\* second pass, from the k-th standard name on: substring matches for the rest
RECURSIVE SecondPass(_, _, _)
SecondPass(columns, renamed_cols, k) ==
    IF k > Len(ColumnMappings) THEN renamed_cols
    ELSE LET variations == ColumnMappings[k].variations
             hit == {c \in Range(columns) \ RenamedKeys(renamed_cols) :
                        LET col_lower == ColLower(c)
                        IN \E v \in DOMAIN variations :
                              SubstringMatch(col_lower, variations[v])}
         IN SecondPass(columns, Renamed(renamed_cols, hit, ColumnMappings[k].name), k + 1)

\* standardize_column_names: the columns of the returned copy
StandardizeColumnNames(columns) ==
    LET renamed_cols == SecondPass(columns, FirstPass(columns, {}, 1), 1)
    IN [i \in DOMAIN columns |->
          IF columns[i] \in RenamedKeys(renamed_cols)
          THEN (CHOOSE item \in renamed_cols : item[1] = columns[i])[2]
          ELSE columns[i]]

----------------------------------------------------------------------------
(* DataQualityIndex: the study rollup *)

\* the scores in ascending order
RECURSIVE SortQ(_)
SortQ(qs) ==
    IF qs = <<>> THEN <<>>
    ELSE LET rest == SortQ(Tail(qs))
             below == SelectSeq(rest, LAMBDA q : QLt(q, Head(qs)))
             above == SelectSeq(rest, LAMBDA q : ~QLt(q, Head(qs)))
         IN below \o <<Head(qs)>> \o above

\* Series.median()
MedianQ(qs) ==
    LET sorted == SortQ(qs)
        n == Len(sorted)
    IN IF n % 2 = 1 THEN sorted[(n + 1) \div 2]
       ELSE QDiv(QAdd(sorted[n \div 2], sorted[n \div 2 + 1]), QInt(2))

\* subject_data["dqi_score"].dropna()
ValidDqi(tbl) ==
    LET kept == SelectSeq(tbl, LAMBDA r : ~IsNa(r.dqi_score))
    IN [i \in DOMAIN kept |-> kept[i].dqi_score[1]]

\* (subject_data["risk_level"] == level).sum()
RiskCount(tbl, level) == Len(SelectSeq(tbl, LAMBDA r : r.risk_level = level))

\* the dict calculate_study_dqi returns without statistics
NoStatistics(availability) ==
    [raised |-> FALSE, overall_dqi |-> NaN, median_dqi |-> NaN, min_dqi |-> NaN,
     max_dqi |-> NaN, subjects_high_risk |-> 0, subjects_medium_risk |-> 0,
     subjects_low_risk |-> 0, pct_high_risk |-> Q0, data_availability |-> availability]

\* the dict calculate_study_dqi builds from the defined scores (std_dqi left out)
StudyStatistics(tbl) ==
    LET valid_dqi == ValidDqi(tbl)
    IN [raised |-> FALSE,
        overall_dqi |-> <<QDiv(QSum(valid_dqi), QInt(Len(valid_dqi)))>>,
        median_dqi |-> <<MedianQ(valid_dqi)>>,
        min_dqi |-> <<SortQ(valid_dqi)[1]>>,
        max_dqi |-> <<SortQ(valid_dqi)[Len(valid_dqi)]>>,
        subjects_high_risk |-> RiskCount(tbl, "High"),
        subjects_medium_risk |-> RiskCount(tbl, "Medium"),
        subjects_low_risk |-> RiskCount(tbl, "Low"),
        pct_high_risk |-> QDiv(QInt(RiskCount(tbl, "High") * 100), QInt(Len(tbl))),
        data_availability |-> "subjects with DQI"]

\* the outcome of formatting overall_dqi for the log line: the format
\* specification is the text ".2f if study_dqi['overall_dqi'] else 'N/A'",
\* which float.__format__ rejects with ValueError
LogStudyDqi(study_dqi_dict) == [study_dqi_dict EXCEPT !.raised = TRUE]

\* study_dqi before calculate_study_dqi was called
NotComputed == [raised |-> FALSE, data_availability |-> "not computed"]

\* calculate_study_dqi
StudyDqiOf(tbl) ==
    IF tbl = <<>> THEN NoStatistics("No data")
    ELSE IF ValidDqi(tbl) = <<>> THEN NoStatistics("Insufficient data for DQI calculation")
    ELSE LogStudyDqi(StudyStatistics(tbl))

----------------------------------------------------------------------------
(* RiskIntelligence *)

\* threshold default of detect_high_risk_sites
SiteRiskThreshold == 70

\* Series.get(key, "Unknown") on a row
GetOrUnknown(row, key) == IF key \in DOMAIN row THEN row[key] ELSE "Unknown"

Factor(name, value) == <<[factor |-> name, value |-> value]>>

\* _identify_site_risk_factors
IdentifySiteRiskFactors(site_row) ==
    LET factors ==
            (IF site_row.total_missing_visits > 10
             THEN Factor("High missing visits", site_row.total_missing_visits) ELSE <<>>)
            \o (IF site_row.total_open_queries > 20
                THEN Factor("High query burden", site_row.total_open_queries) ELSE <<>>)
            \o (IF site_row.total_missing_pages > 15
                THEN Factor("Significant data gaps", site_row.total_missing_pages) ELSE <<>>)
    IN IF factors # <<>> THEN factors ELSE Factor("Multiple operational issues", 0)

\* detect_high_risk_sites
DetectHighRiskSites(sites) ==
    LET risky_sites == SelectSeq(sites,
                          LAMBDA r : QLt(r.performance_score, QInt(SiteRiskThreshold)))
    IN [i \in DOMAIN risky_sites |->
          [entity_type |-> "site",
           entity_id |-> GetOrUnknown(risky_sites[i], "site_id"),
           risk_level |-> "High",
           risk_score |-> risky_sites[i].performance_score,
           risk_factors |-> IdentifySiteRiskFactors(risky_sites[i])]]

\* _identify_subject_risk_factors
IdentifySubjectRiskFactors(row) ==
    LET over(name, limit, label) ==
            IF name \in DOMAIN row /\ row[name] > limit
            THEN Factor(label, row[name]) ELSE <<>>
        factors ==
            over("open_queries", 3, "unresolved queries")
            \o over("missing_visits", 0, "missing visits")
            \o over("missing_pages", 5, "missing pages")
            \o (IF "sdv_complete" \in DOMAIN row /\ ~row.sdv_complete
                THEN Factor("SDV incomplete", 0) ELSE <<>>)
            \o over("open_safety_issues", 0, "open safety issues")
    IN IF factors # <<>> THEN factors ELSE Factor("Data quality concerns", 0)

\* detect_high_risk_subjects
DetectHighRiskSubjects(subjects) ==
    LET risky_subjects == SelectSeq(subjects, LAMBDA r : r.risk_level = "High")
    IN [i \in DOMAIN risky_subjects |->
          [entity_type |-> "subject",
           entity_id |-> GetOrUnknown(risky_subjects[i].row, "Subject ID"),
           site_id |-> GetOrUnknown(risky_subjects[i].row, "Site ID"),
           risk_level |-> "High",
           dqi_score |-> risky_subjects[i].dqi_score,
           risk_factors |-> IdentifySubjectRiskFactors(risky_subjects[i].row)]]

\* detect_query_hotspots: needs the columns "Site ID" and "open_queries"
DetectQueryHotspots(subjects) ==
    IF \A i \in DOMAIN subjects : "Site ID" \in DOMAIN subjects[i].row
    THEN LET busy == SelectSeq(subjects, LAMBDA r : "open_queries" \in DOMAIN r.row
                                                     /\ r.row.open_queries >= 5)
         IN [i \in DOMAIN busy |->
               [entity_type |-> "query_hotspot", entity_id |-> busy[i].row["Site ID"]]]
    ELSE <<>>

\* risk_report before generate_risk_report was called
NoReport == [generated |-> FALSE, high_risk_sites |-> <<>>, high_risk_subjects |-> <<>>,
             query_hotspots |-> <<>>, critical_issues_count |-> 0]

\* generate_risk_report: the risk_summary for the study's metrics
RiskReportOf(sites, subjects) ==
    LET high_risk_sites == IF sites # <<>> THEN DetectHighRiskSites(sites) ELSE <<>>
        high_risk_subjects == DetectHighRiskSubjects(subjects)
        query_hotspots == IF subjects # <<>> THEN DetectQueryHotspots(subjects) ELSE <<>>
    IN [generated |-> TRUE,
        high_risk_sites |-> high_risk_sites,
        high_risk_subjects |-> high_risk_subjects,
        query_hotspots |-> query_hotspots,
        critical_issues_count |->
            Len(high_risk_sites) + Len(high_risk_subjects) + Len(query_hotspots)]

\* MetricsEngine.metrics_cache before the first calculation
NoCache == [subject_metrics |-> <<>>, site_metrics |-> <<>>]

\* nothing kept of a first run
NoRun == [done |-> FALSE]

----------------------------------------------------------------------------
(* The pipeline run *)

Init ==
    /\ study \in Studies
    /\ pc = "start"
    /\ subject_master = NoMaster
    /\ agg = NoAggregates
    /\ pages_df = EmptyFrame
    /\ consolidated = <<>>
    /\ subject_metrics = <<>>
    /\ site_metrics = <<>>
    /\ scored = <<>>
    /\ study_dqi = NotComputed
    /\ risk_report = NoReport
    /\ metrics_cache = NoCache
    /\ run = 1
    /\ first_run = NoRun
    /\ df_columns = <<>>
    /\ std_columns = <<>>
    /\ subject_row = <<>>
    /\ is_clean = "not called"
    /\ summary = <<>>
    /\ assessment = <<>>
    /\ subject_states = <<>>
    /\ event_bus = <<>>

\* load_study_data, step 1
LoadSubjectMaster ==
    /\ pc = "start"
    /\ subject_master' = LoadSubjectMasterOf(study)
    /\ pc' = IF subject_master'.none \/ subject_master'.rows = <<>>
             THEN "nodata" ELSE "master"
    /\ UNCHANGED <<study, agg, pages_df, consolidated, subject_metrics, site_metrics, scored,
                   study_dqi, risk_report, metrics_cache, run, first_run,
                   df_columns, std_columns, apart>>

\* load_study_data, steps 2..6
AggregateDomainMetrics ==
    /\ pc = "master"
    /\ agg' = AggregatesOf(study)
    /\ pages_df' = MissingPagesFrame(study)
    /\ pc' = "aggregated"
    /\ UNCHANGED <<study, subject_master, consolidated, subject_metrics, site_metrics, scored,
                   study_dqi, risk_report, metrics_cache, run, first_run,
                   df_columns, std_columns, apart>>

\* load_study_data, step 7
JoinAllMetrics ==
    /\ pc = "aggregated"
    /\ consolidated' = JoinAllMetricsOf(subject_master, agg)
    /\ pc' = "joined"
    /\ UNCHANGED <<study, subject_master, agg, pages_df, subject_metrics, site_metrics, scored,
                   study_dqi, risk_report, metrics_cache, run, first_run,
                   df_columns, std_columns, apart>>

\* load_study_data, step 8 and return
CalculateCleanPatientFlag ==
    /\ pc = "joined"
    /\ consolidated' = CleanPatientFlagOf(consolidated)
    /\ pc' = "loaded"
    /\ UNCHANGED <<study, subject_master, agg, pages_df, subject_metrics, site_metrics, scored,
                   study_dqi, risk_report, metrics_cache, run, first_run,
                   df_columns, std_columns, apart>>

\* calculate_all_metrics_for_study on the loaded table
CalculateAllMetricsForStudy ==
    /\ pc = "loaded"
    /\ subject_metrics' = SubjectMetricsOf(consolidated)
    /\ site_metrics' = SitePerformanceMetricsOf(consolidated)
    /\ pc' = "metrics"
    /\ metrics_cache' = [subject_metrics |-> subject_metrics', site_metrics |-> site_metrics']
    /\ UNCHANGED <<study, subject_master, agg, pages_df, consolidated, scored,
                   study_dqi, risk_report, run, first_run,
                   df_columns, std_columns, apart>>

\* calculate_subject_dqi on results["subject_metrics"]
CalculateSubjectDqi ==
    /\ pc = "metrics"
    /\ scored' = SubjectDqiOf(subject_metrics)
    /\ pc' = "scored"
    /\ UNCHANGED <<study, subject_master, agg, pages_df, consolidated, subject_metrics,
                   site_metrics, study_dqi, risk_report, metrics_cache, run, first_run,
                   df_columns, std_columns, apart>>

\* main: calculate_study_dqi on the scored table; an exception ends the run
CalculateStudyDqi ==
    /\ pc = "scored"
    /\ study_dqi' = StudyDqiOf(scored)
    /\ pc' = IF study_dqi'.raised THEN "failed" ELSE "rolled"
    /\ UNCHANGED <<study, subject_master, agg, pages_df, consolidated, subject_metrics,
                   site_metrics, scored, risk_report, metrics_cache, run, first_run,
                   df_columns, std_columns, apart>>

\* generate_risk_report, after the study rollup (main) or right after scoring
\* (dashboard)
GenerateRiskReport ==
    /\ pc \in {"scored", "rolled"}
    /\ risk_report' = RiskReportOf(site_metrics, scored)
    /\ pc' = "reported"
    /\ UNCHANGED <<study, subject_master, agg, pages_df, consolidated, subject_metrics,
                   site_metrics, scored, study_dqi, metrics_cache, run, first_run,
                   df_columns, std_columns, apart>>

Next ==
    \/ LoadSubjectMaster
    \/ AggregateDomainMetrics
    \/ JoinAllMetrics
    \/ CalculateCleanPatientFlag
    \/ CalculateAllMetricsForStudy
    \/ CalculateSubjectDqi
    \/ CalculateStudyDqi
    \/ GenerateRiskReport

Spec == Init /\ [][Next]_vars

\* A second run over the same study directory, on the same MetricsEngine and
\* DataQualityIndex objects: the tables of the first run are set aside, the
\* locals of the run start afresh, and the cache of the engine stays.
RunAgain ==
    /\ run = 1
    /\ pc \in {"nodata", "failed", "reported"}
    /\ first_run' = [done |-> TRUE, nodata |-> pc = "nodata",
                     consolidated |-> consolidated, subject_metrics |-> subject_metrics,
                     site_metrics |-> site_metrics, scored |-> scored,
                     study_dqi |-> study_dqi]
    /\ run' = 2
    /\ pc' = "start"
    /\ subject_master' = NoMaster
    /\ agg' = NoAggregates
    /\ pages_df' = EmptyFrame
    /\ consolidated' = <<>>
    /\ subject_metrics' = <<>>
    /\ site_metrics' = <<>>
    /\ scored' = <<>>
    /\ study_dqi' = NotComputed
    /\ risk_report' = NoReport
    /\ UNCHANGED <<study, metrics_cache,
                   df_columns, std_columns, apart>>

NextTwice ==
    \/ Next
    \/ RunAgain

SpecTwice == Init /\ [][NextTwice]_vars

\* standardize_column_names on a frame with rows; the frame itself is copied
StandardizeColumns ==
    /\ pc = "columns"
    /\ std_columns' = StandardizeColumnNames(df_columns)
    /\ pc' = "standardized"
    /\ UNCHANGED <<study, subject_master, agg, pages_df, consolidated, subject_metrics,
                   site_metrics, scored, study_dqi, risk_report, metrics_cache, run,
                   first_run, df_columns, apart>>

\* headers of the frames given to the resolver
HeaderPool ==
    {"Subject Status", "Status", "Total Queries", "Subject Site ID", " site id ",
     "Visit Date", "Age", "Protocol Status", "#Total"}

InitColumns ==
    /\ study = MkStudy(<<>>)
    /\ pc = "columns"
    /\ subject_master = NoMaster
    /\ agg = NoAggregates
    /\ pages_df = EmptyFrame
    /\ consolidated = <<>>
    /\ subject_metrics = <<>>
    /\ site_metrics = <<>>
    /\ scored = <<>>
    /\ study_dqi = NotComputed
    /\ risk_report = NoReport
    /\ metrics_cache = NoCache
    /\ run = 1
    /\ first_run = NoRun
    /\ df_columns \in SeqsUpTo(HeaderPool, MaxHeaders) \ {<<>>}
    /\ std_columns = <<>>
    /\ subject_row = <<>>
    /\ is_clean = "not called"
    /\ summary = <<>>
    /\ assessment = <<>>
    /\ subject_states = <<>>
    /\ event_bus = <<>>

NextColumns == StandardizeColumns

SpecColumns == InitColumns /\ [][NextColumns]_vars

\* Runs over the page-focused study directories: missing pages over two visits
\* and two forms, a visit projection and an inactivated-forms report.
PageItems ==
    {RowItem("pages", s, v, f, "-", Blank) :
        s \in SubjectIds, v \in {"V1", "V2"}, f \in {"F1", "F2"}}
VisitItems ==
    {RowItem("visit", s, "V1", "-", st, Blank) : s \in SubjectIds, st \in {"Overdue", "Future"}}
InactItems == {RowItem("inact", S1, "-", "F2", "-", Blank)}

\* Runs over directories whose subject cells are written with and without a
\* leading blank
IdItems ==
    {RowItem("edc", s, "-", "-", "-", Num(1)) : s \in {S1Padded, S1, S2}}
    \cup {RowItem("visit", s, "V1", "-", "Overdue", Blank) : s \in {S1Padded, S1, S2}}

\* the primary report writes every identifier cell once
EachCellOnce(items) ==
    \A i, j \in DOMAIN items :
        (items[i].rep = "edc" /\ items[i] = items[j]) => i = j

IdStudies ==
    {MkStudy(items) : items \in {its \in SeqsUpTo(IdItems, MaxIdRows) : EachCellOnce(its)}}

InitIds ==
    /\ study \in IdStudies
    /\ pc = "start"
    /\ subject_master = NoMaster
    /\ agg = NoAggregates
    /\ pages_df = EmptyFrame
    /\ consolidated = <<>>
    /\ subject_metrics = <<>>
    /\ site_metrics = <<>>
    /\ scored = <<>>
    /\ study_dqi = NotComputed
    /\ risk_report = NoReport
    /\ metrics_cache = NoCache
    /\ run = 1
    /\ first_run = NoRun
    /\ df_columns = <<>>
    /\ std_columns = <<>>
    /\ subject_row = <<>>
    /\ is_clean = "not called"
    /\ summary = <<>>
    /\ assessment = <<>>
    /\ subject_states = <<>>
    /\ event_bus = <<>>

SpecIds == InitIds /\ [][Next]_vars

PageStudies ==
    {MkStudy(p \o v \o n) : p \in SeqsUpTo(PageItems, MaxPageRows),
                            v \in SeqsUpTo(VisitItems, MaxVisitRows),
                            n \in SeqsUpTo(InactItems, 1)}

InitPages ==
    /\ study \in PageStudies
    /\ pc = "start"
    /\ subject_master = NoMaster
    /\ agg = NoAggregates
    /\ pages_df = EmptyFrame
    /\ consolidated = <<>>
    /\ subject_metrics = <<>>
    /\ site_metrics = <<>>
    /\ scored = <<>>
    /\ study_dqi = NotComputed
    /\ risk_report = NoReport
    /\ metrics_cache = NoCache
    /\ run = 1
    /\ first_run = NoRun
    /\ df_columns = <<>>
    /\ std_columns = <<>>
    /\ subject_row = <<>>
    /\ is_clean = "not called"
    /\ summary = <<>>
    /\ assessment = <<>>
    /\ subject_states = <<>>
    /\ event_bus = <<>>

SpecPages == InitPages /\ [][Next]_vars

----------------------------------------------------------------------------
(* Frames handed directly to the scoring functions *)

\* a column of one row: missing, or one of the values
OptField(name, vals) == {<<>>} \cup {name :> v : v \in vals}

\* the metric columns of one row of a frame
DqiRowBodies ==
    {a @@ b @@ c @@ d :
        a \in OptField("open_safety_issues", {0, 2}),
        b \in OptField("missing_visits", {3}),
        c \in OptField("open_queries", {0, 3}),
        d \in OptField("completeness_score", {QInt(50)})}

\* frames of up to MaxDqiRows rows, the subjects numbered in row order
DqiFrames ==
    {[i \in DOMAIN body |->
        ("subject_id" :> ("S" \o ToString(i))) @@ ("site_id" :> <<"A">>) @@ body[i]] :
        body \in SeqsUpTo(DqiRowBodies, MaxDqiRows) \ {<<>>}}

InitDqi ==
    /\ study = MkStudy(<<>>)
    /\ pc = "metrics"
    /\ subject_master = NoMaster
    /\ agg = NoAggregates
    /\ pages_df = EmptyFrame
    /\ consolidated = <<>>
    /\ subject_metrics \in DqiFrames
    /\ site_metrics = <<>>
    /\ scored = <<>>
    /\ study_dqi = NotComputed
    /\ risk_report = NoReport
    /\ metrics_cache = NoCache
    /\ run = 1
    /\ first_run = NoRun
    /\ df_columns = <<>>
    /\ std_columns = <<>>
    /\ subject_row = <<>>
    /\ is_clean = "not called"
    /\ summary = <<>>
    /\ assessment = <<>>
    /\ subject_states = <<>>
    /\ event_bus = <<>>

NextDqi ==
    \/ CalculateSubjectDqi
    \/ CalculateStudyDqi
    \/ GenerateRiskReport

SpecDqi == InitDqi /\ [][NextDqi]_vars

----------------------------------------------------------------------------
(* Consolidated tables handed directly to the metrics engine *)

\* the site and the raw metrics of one subject, as _join_all_metrics leaves them
TableRowBodies ==
    {[site_id |-> site, missing_visits |-> mv, missing_pages |-> mp,
      open_queries |-> oq, pending_sdv |-> 0, open_safety_issues |-> 0] :
        site \in {<<"A">>, <<"B">>, NaN}, mv \in {0, 2, 4}, mp \in {0, 6}, oq \in {0, 4}}

\* tables of up to MaxTableRows subjects numbered in row order, clean flag set
MetricTables ==
    {CleanPatientFlagOf([i \in DOMAIN body |->
        ("subject_id" :> ("S" \o ToString(i))) @@ body[i]]) :
        body \in SeqsUpTo(TableRowBodies, MaxTableRows) \ {<<>>}}

InitMetrics ==
    /\ study = MkStudy(<<>>)
    /\ pc = "loaded"
    /\ subject_master = NoMaster
    /\ agg = NoAggregates
    /\ pages_df = EmptyFrame
    /\ consolidated \in MetricTables
    /\ subject_metrics = <<>>
    /\ site_metrics = <<>>
    /\ scored = <<>>
    /\ study_dqi = NotComputed
    /\ risk_report = NoReport
    /\ metrics_cache = NoCache
    /\ run = 1
    /\ first_run = NoRun
    /\ df_columns = <<>>
    /\ std_columns = <<>>
    /\ subject_row = <<>>
    /\ is_clean = "not called"
    /\ summary = <<>>
    /\ assessment = <<>>
    /\ subject_states = <<>>
    /\ event_bus = <<>>

NextMetrics ==
    \/ CalculateAllMetricsForStudy
    \/ CalculateSubjectDqi
    \/ CalculateStudyDqi
    \/ GenerateRiskReport

SpecMetrics == InitMetrics /\ [][NextMetrics]_vars

----------------------------------------------------------------------------
(* MetricsEngine.assess_clean_patient_status on a row of its own *)

\* the variables of the batch pipeline other than pc
batch == <<study, subject_master, agg, pages_df, consolidated, subject_metrics,
           site_metrics, scored, study_dqi, risk_report, metrics_cache, run, first_run,
           df_columns, std_columns>>

\* the batch pipeline before any run
BatchIdle ==
    /\ study = MkStudy(<<>>)
    /\ subject_master = NoMaster
    /\ agg = NoAggregates
    /\ pages_df = EmptyFrame
    /\ consolidated = <<>>
    /\ subject_metrics = <<>>
    /\ site_metrics = <<>>
    /\ scored = <<>>
    /\ study_dqi = NotComputed
    /\ risk_report = NoReport
    /\ metrics_cache = NoCache
    /\ run = 1
    /\ first_run = NoRun
    /\ df_columns = <<>>
    /\ std_columns = <<>>

\* required_criteria of assess_clean_patient_status, in its order
RequiredCriteria ==
    <<[col |-> "missing_visits", threshold |-> 0],
      [col |-> "missing_pages", threshold |-> 0],
      [col |-> "open_queries", threshold |-> 0],
      [col |-> "pending_sdv", threshold |-> 0],
      [col |-> "open_safety_issues", threshold |-> 0]>>

\* value = pd.to_numeric(subject_row[col], errors='coerce'); NaN becomes 0
CriterionValue(row, col) == FillNa(ToNumeric(row[col]), 0)

\* assess_clean_patient_status: is_clean turns False at the first criterion
\* whose value is above its threshold
AssessCleanPatientStatusOf(row) ==
    ~\E k \in DOMAIN RequiredCriteria :
        /\ RequiredCriteria[k].col \in DOMAIN row
        /\ CriterionValue(row, RequiredCriteria[k].col) > RequiredCriteria[k].threshold

\* the cells a criteria column can hold
CriteriaCells == {Blank, TextCell, Num(0), Num(1), Num(-1)}

\* rows with each criteria column absent or holding one of the cells
CriteriaRows ==
    {a @@ b @@ c @@ d @@ e :
        a \in OptField("missing_visits", CriteriaCells),
        b \in OptField("missing_pages", CriteriaCells),
        c \in OptField("open_queries", CriteriaCells),
        d \in OptField("pending_sdv", CriteriaCells),
        e \in OptField("open_safety_issues", CriteriaCells)}

AssessCleanPatientStatus ==
    /\ pc = "row"
    /\ is_clean' = AssessCleanPatientStatusOf(subject_row)
    /\ pc' = "assessed"
    /\ UNCHANGED <<batch, subject_row, summary, assessment, subject_states, event_bus>>

InitClean ==
    /\ BatchIdle
    /\ pc = "row"
    /\ subject_row \in CriteriaRows
    /\ is_clean = "not called"
    /\ summary = <<>>
    /\ assessment = <<>>
    /\ subject_states = <<>>
    /\ event_bus = <<>>

NextClean == AssessCleanPatientStatus

SpecClean == InitClean /\ [][NextClean]_vars

----------------------------------------------------------------------------
(* MetricsEngine.get_study_summary and RiskIntelligence.assess_interim_analysis_readiness *)

\* get_study_summary: the defaults, overwritten from the cached subject table when
\* the cache has one (an empty table, or a study that is not loaded, caches none)
GetStudySummaryOf(metrics) ==
    LET subject_df == metrics.subject_metrics
        has_subjects == subject_df # <<>>
        total == Len(subject_df)
        clean == Cardinality({i \in DOMAIN subject_df : subject_df[i].is_clean_patient})
    IN [total_subjects |-> IF has_subjects THEN total ELSE 0,
        clean_subjects |-> IF has_subjects THEN clean ELSE 0,
        pct_clean |-> IF has_subjects /\ total > 0
                      THEN QMul(QDiv(QInt(clean), QInt(total)), Q100) ELSE Q0,
        avg_completeness |->
            IF has_subjects
            THEN QDiv(QSum([i \in DOMAIN subject_df |-> subject_df[i].completeness_score]),
                      QInt(total))
            ELSE Q0,
        total_open_queries |->
            IF has_subjects THEN SumOf([i \in DOMAIN subject_df |-> subject_df[i].open_queries]) ELSE 0,
        total_saes |-> 0,
        open_saes |-> 0]

\* criterion 1: clean patient percentage
CleanCriterion(pct_clean) ==
    IF QLe(QInt(90), pct_clean) THEN [score |-> 40, blocking |-> <<>>, warnings |-> <<>>]
    ELSE IF QLe(QInt(75), pct_clean)
         THEN [score |-> 30, blocking |-> <<>>, warnings |-> <<"clean patients">>]
         ELSE [score |-> 0, blocking |-> <<"clean patients">>, warnings |-> <<>>]

\* criterion 2: open queries per subject, total_subjects is not 0
QueryCriterion(open_queries, total_subjects) ==
    LET queries_per_subject == QDiv(QInt(open_queries), QInt(total_subjects))
    IN IF QLe(queries_per_subject, QInt(1))
       THEN [score |-> 30, blocking |-> <<>>, warnings |-> <<>>]
       ELSE IF QLe(queries_per_subject, QInt(2))
            THEN [score |-> 20, blocking |-> <<>>, warnings |-> <<"query burden">>]
            ELSE [score |-> 0, blocking |-> <<"query burden">>, warnings |-> <<>>]

\* criterion 3: safety events
SafetyCriterion(open_saes) ==
    IF open_saes = 0 THEN [score |-> 30, blocking |-> <<>>, warnings |-> <<>>]
    ELSE IF open_saes <= 3
         THEN [score |-> 20, blocking |-> <<>>, warnings |-> <<"safety events">>]
         ELSE [score |-> 0, blocking |-> <<"safety events">>, warnings |-> <<>>]

\* assessment["ready"]
ReadyOf(overall_score, blocking_issues) == overall_score >= 70 /\ Len(blocking_issues) = 0

\* assess_interim_analysis_readiness: the assessment, or the exception of the
\* division open_queries / total_subjects when total_subjects is 0
AssessInterimAnalysisReadinessOf(study_metrics) ==
    IF study_metrics.total_subjects = 0
    THEN [outcome |-> "raised", error |-> "ZeroDivisionError"]
    ELSE LET c1 == CleanCriterion(study_metrics.pct_clean)
             c2 == QueryCriterion(study_metrics.total_open_queries,
                                  study_metrics.total_subjects)
             c3 == SafetyCriterion(study_metrics.open_saes)
             overall_score == c1.score + c2.score + c3.score
             blocking_issues == c1.blocking \o c2.blocking \o c3.blocking
             warnings == c1.warnings \o c2.warnings \o c3.warnings
             ready == ReadyOf(overall_score, blocking_issues)
         IN [outcome |-> "returned",
             ready |-> ready,
             overall_score |-> overall_score,
             blocking_issues |-> blocking_issues,
             warnings |-> warnings,
             recommendations |->
                 IF ready THEN <<>>
                 ELSE (IF blocking_issues # <<>> THEN <<"address blocking issues">> ELSE <<>>)
                      \o (IF warnings # <<>> THEN <<"resolve warnings">> ELSE <<>>)]

\* get_study_summary(study_name) on the cached metrics
GetStudySummary ==
    /\ pc = "metrics"
    /\ summary' = GetStudySummaryOf(metrics_cache)
    /\ pc' = "summarised"
    /\ UNCHANGED <<batch, subject_row, is_clean, assessment, subject_states, event_bus>>

\* assess_interim_analysis_readiness(summary)
AssessInterimAnalysisReadiness ==
    /\ pc = "summarised"
    /\ assessment' = AssessInterimAnalysisReadinessOf(summary)
    /\ pc' = "assessed"
    /\ UNCHANGED <<batch, subject_row, is_clean, summary, subject_states, event_bus>>

\* a loaded study of up to MaxTableRows subjects, or of none
InitReady ==
    /\ study = MkStudy(<<>>)
    /\ pc = "loaded"
    /\ subject_master = NoMaster
    /\ agg = NoAggregates
    /\ pages_df = EmptyFrame
    /\ consolidated \in MetricTables \cup {EmptyFrame}
    /\ subject_metrics = <<>>
    /\ site_metrics = <<>>
    /\ scored = <<>>
    /\ study_dqi = NotComputed
    /\ risk_report = NoReport
    /\ metrics_cache = NoCache
    /\ run = 1
    /\ first_run = NoRun
    /\ df_columns = <<>>
    /\ std_columns = <<>>
    /\ subject_row = <<>>
    /\ is_clean = "not called"
    /\ summary = <<>>
    /\ assessment = <<>>
    /\ subject_states = <<>>
    /\ event_bus = <<>>

NextReady ==
    \/ CalculateAllMetricsForStudy
    \/ GetStudySummary
    \/ AssessInterimAnalysisReadiness

SpecReady == InitReady /\ [][NextReady]_vars

----------------------------------------------------------------------------
(* The event-driven variant: SubjectState objects, apply_* and the event bus *)

\* the enrolled subject of the base table, and a subject that only reports know
Enrolled == "S1"
Unknown == "S2"

\* int(v) if v is not None and v == v else 0
IntOrZero(v) == IF v # NaN THEN v[1] ELSE 0

\* calculate_dqi: 100 minus the weighted findings, floored at 0; clean is dqi == 100
CalculateDqi(state) ==
    LET dqi == 100 - state.missing_visits * 5 - state.missing_pages * 3
                   - state.total_queries * 4
                   - (IF state.pending_sae THEN 8 ELSE 0)
                   - state.uncoded_terms * 2 - state.overdue_signatures * 10
        floored == IF dqi > 0 THEN dqi ELSE 0
    IN [state EXCEPT !.dqi = <<floored>>, !.clean = <<floored = 100>>]

\* SubjectState.__init__
SubjectState(row) ==
    [site_id |-> row.site_id,
     subject_id |-> row.subject_id,
     missing_visits |-> IntOrZero(row.missing_visits),
     missing_pages |-> IntOrZero(row.missing_pages),
     total_queries |-> IntOrZero(row.total_queries),
     pending_sae |-> FALSE,
     uncoded_terms |-> 0,
     overdue_signatures |-> 0,
     dqi |-> NaN,
     clean |-> NaN]

\* build_subject_states: one scored state per row, a later row replaces an earlier
\* one with the same subject_id
RECURSIVE BuildSubjectStatesOf(_)
BuildSubjectStatesOf(df) ==
    IF df = <<>> THEN <<>>
    ELSE LET state == CalculateDqi(SubjectState(df[Len(df)]))
         IN (state.subject_id :> state) @@ BuildSubjectStatesOf(SubSeq(df, 1, Len(df) - 1))

\* the result of an apply_* call on no rows
NoChange(states) == [states |-> states, events |-> <<>>]

\* the event of one row, followed by the states and events of the other rows
Emit(event, rest) ==
    [states |-> rest.states, events |-> <<event>> \o rest.events]

\* apply_visit_projection: the row enters the overdue-visit condition
VisitOverdue(state, days) == days > 0 /\ state.missing_visits = 0

RECURSIVE ApplyVisitProjectionOf(_, _)
ApplyVisitProjectionOf(states, visit_df) ==
    IF visit_df = <<>> THEN NoChange(states)
    ELSE LET row == Head(visit_df)
             subject_id == row.subject
         IN IF subject_id \in DOMAIN states /\ VisitOverdue(states[subject_id], row.days_outstanding)
            THEN LET state == CalculateDqi([states[subject_id] EXCEPT !.missing_visits = 1])
                     rest == ApplyVisitProjectionOf([states EXCEPT ![subject_id] = state],
                                                    Tail(visit_df))
                 IN Emit([type |-> "VISIT_OVERDUE", subject_id |-> subject_id,
                          site_id |-> state.site_id,
                          days_outstanding |-> row.days_outstanding,
                          new_dqi |-> state.dqi[1]], rest)
            ELSE ApplyVisitProjectionOf(states, Tail(visit_df))

\* the texts of the report cells
ReportTexts ==
    {"Review Completed", "Pending", "Yes", "No", "Coded", "Y", "N",
     "Form Inactivated", "Deleted"}

\* str(v).lower() for each text of the reports
LowerText == [text \in ReportTexts |-> StrLower(text)]

\* a test that would not look at the flag already set
SaePending_Unguarded(state, review_status) ==
    LowerText[review_status] # "review completed"

\* apply_sae_risk: the row enters the pending-SAE condition
SaePending(state, review_status) ==
    LowerText[review_status] # "review completed" /\ ~state.pending_sae

RECURSIVE ApplySaeRiskOf(_, _)
ApplySaeRiskOf(states, sae_df) ==
    IF sae_df = <<>> THEN NoChange(states)
    ELSE LET row == Head(sae_df)
             subject_id == row.subject_id
         IN IF subject_id \in DOMAIN states /\ SaePending(states[subject_id], row.review_status)
            THEN LET state == CalculateDqi([states[subject_id] EXCEPT !.pending_sae = TRUE])
                     rest == ApplySaeRiskOf([states EXCEPT ![subject_id] = state], Tail(sae_df))
                 IN Emit([type |-> "SAE_PENDING", subject_id |-> subject_id,
                          site_id |-> state.site_id, new_dqi |-> state.dqi[1]], rest)
            ELSE ApplySaeRiskOf(states, Tail(sae_df))

\* the coding rows that count: coding required and not coded
RequiresCoding(row) ==
    LowerText[row.require_coding] = "yes" /\ LowerText[row.coding_status] # "coded"

\* the subjects with a counted row in first-row order, each with its count
RECURSIVE CodingCounts(_)
CodingCounts(coding_df) ==
    IF coding_df = <<>> THEN <<>>
    ELSE LET before == CodingCounts(SubSeq(coding_df, 1, Len(coding_df) - 1))
             row == coding_df[Len(coding_df)]
         IN IF ~RequiresCoding(row) THEN before
            ELSE IF \E i \in DOMAIN before : before[i].subject_id = row.subject_id
                 THEN [i \in DOMAIN before |->
                          IF before[i].subject_id = row.subject_id
                          THEN [before[i] EXCEPT !.count = @ + 1] ELSE before[i]]
                 ELSE Append(before, [subject_id |-> row.subject_id, count |-> 1])

\* the subject enters the coding backlog
CodingBacklog(state, count) == state.uncoded_terms = 0 /\ count > 0

RECURSIVE ApplyCodingCounts(_, _)
ApplyCodingCounts(states, counts) ==
    IF counts = <<>> THEN NoChange(states)
    ELSE LET subject_id == Head(counts).subject_id
             count == Head(counts).count
         IN IF subject_id \in DOMAIN states /\ CodingBacklog(states[subject_id], count)
            THEN LET state == CalculateDqi([states[subject_id] EXCEPT !.uncoded_terms = count])
                     rest == ApplyCodingCounts([states EXCEPT ![subject_id] = state], Tail(counts))
                 IN Emit([type |-> "CODING_BACKLOG", subject_id |-> subject_id,
                          site_id |-> state.site_id, uncoded_terms |-> count,
                          new_dqi |-> state.dqi[1]], rest)
            ELSE ApplyCodingCounts(states, Tail(counts))

\* apply_coding_risk
ApplyCodingRiskOf(states, coding_df) == ApplyCodingCounts(states, CodingCounts(coding_df))

\* apply_coding_risk for each coding file of the directory, in directory order
RECURSIVE ApplyCodingFiles(_, _)
ApplyCodingFiles(states, files) ==
    IF files = <<>> THEN NoChange(states)
    ELSE LET first == ApplyCodingRiskOf(states, Head(files))
             rest == ApplyCodingFiles(first.states, Tail(files))
         IN [states |-> rest.states, events |-> first.events \o rest.events]

\* apply_missing_pages: the row enters the missing-pages condition
PagesMissing(state, days) == days > 0 /\ state.missing_pages = 0

RECURSIVE ApplyMissingPagesOf(_, _)
ApplyMissingPagesOf(states, pages) ==
    IF pages = <<>> THEN NoChange(states)
    ELSE LET row == Head(pages)
             subject_id == row.subject_id
         IN IF subject_id \in DOMAIN states /\ PagesMissing(states[subject_id], row.days_missing)
            THEN LET state == CalculateDqi([states[subject_id] EXCEPT !.missing_pages = 1])
                     rest == ApplyMissingPagesOf([states EXCEPT ![subject_id] = state], Tail(pages))
                 IN Emit([type |-> "MISSING_PAGES", subject_id |-> subject_id,
                          site_id |-> state.site_id, new_dqi |-> state.dqi[1]], rest)
            ELSE ApplyMissingPagesOf(states, Tail(pages))

\* apply_inactivation_risk: the row is an inactivated form with data, first for the subject
FormInactivated(state, data_present, action) ==
    /\ LowerText[data_present] = "y"
    /\ Contains(LowerText[action], "inactivated")
    /\ state.overdue_signatures = 0

RECURSIVE ApplyInactivationRiskOf(_, _)
ApplyInactivationRiskOf(states, inact_df) ==
    IF inact_df = <<>> THEN NoChange(states)
    ELSE LET row == Head(inact_df)
             subject_id == row.subject_id
         IN IF subject_id \in DOMAIN states
               /\ FormInactivated(states[subject_id], row.data_present, row.action)
            THEN LET state == CalculateDqi([states[subject_id] EXCEPT !.overdue_signatures = 1])
                     rest == ApplyInactivationRiskOf([states EXCEPT ![subject_id] = state],
                                                     Tail(inact_df))
                 IN Emit([type |-> "INACTIVATED_FORM", subject_id |-> subject_id,
                          site_id |-> state.site_id, new_dqi |-> state.dqi[1]], rest)
            ELSE ApplyInactivationRiskOf(states, Tail(inact_df))

\* rows of the base table: counts, negative numbers, and missing values
BaseRows ==
    {[site_id |-> "A", subject_id |-> Enrolled,
      missing_visits |-> mv, missing_pages |-> mp, total_queries |-> tq] :
        mv \in {NaN, <<0>>, <<2>>, <<-1>>}, mp \in {<<0>>, <<5>>}, tq \in {<<0>>, <<-2>>}}

BaseFrames == SeqsUpTo(BaseRows, MaxBaseRows)

VisitReports ==
    SeqsUpTo({[subject |-> s, days_outstanding |-> d] :
                 s \in {Enrolled, Unknown}, d \in {0, 5}}, MaxReportRows)

SaeReports ==
    SeqsUpTo({[subject_id |-> s, review_status |-> r] :
                 s \in {Enrolled, Unknown}, r \in {"Review Completed", "Pending"}},
             MaxReportRows)

CodingReports ==
    SeqsUpTo({[subject_id |-> Enrolled, require_coding |-> "Yes", coding_status |-> "Pending"],
              [subject_id |-> Enrolled, require_coding |-> "Yes", coding_status |-> "Coded"],
              [subject_id |-> Enrolled, require_coding |-> "No", coding_status |-> "Pending"],
              [subject_id |-> Unknown, require_coding |-> "Yes", coding_status |-> "Pending"]},
             MaxReportRows)

\* the MedDRA and WHO-drug files of the directory: none, one, or both in either order
CodingDirectories ==
    {<<>>} \cup {<<a>> : a \in CodingReports} \cup {<<a, b>> : a, b \in CodingReports}

PageReports ==
    SeqsUpTo({[subject_id |-> s, days_missing |-> d] :
                 s \in {Enrolled, Unknown}, d \in {0, 3}}, MaxReportRows)

InactReports ==
    SeqsUpTo({[subject_id |-> Enrolled, data_present |-> "Y", action |-> "Form Inactivated"],
              [subject_id |-> Enrolled, data_present |-> "N", action |-> "Form Inactivated"],
              [subject_id |-> Enrolled, data_present |-> "Y", action |-> "Deleted"],
              [subject_id |-> Unknown, data_present |-> "Y", action |-> "Form Inactivated"]},
             MaxReportRows)

\* the stage of build_full_state that follows a stage; after the last stage
\* build_full_state has returned and any apply_* is called
AfterStage(stage, following) == IF pc = stage THEN following ELSE pc

BuildSubjectStates ==
    /\ pc = "rt_start"
    /\ \E df \in BaseFrames : subject_states' = BuildSubjectStatesOf(df)
    /\ pc' = "rt_visit"
    /\ UNCHANGED <<batch, subject_row, is_clean, summary, assessment, event_bus>>

ApplyVisitProjection ==
    /\ pc \in {"rt_visit", "rt_done"}
    /\ \E visit_df \in VisitReports :
           LET result == ApplyVisitProjectionOf(subject_states, visit_df)
           IN /\ subject_states' = result.states
              /\ event_bus' = event_bus \o result.events
    /\ pc' = AfterStage("rt_visit", "rt_sae")
    /\ UNCHANGED <<batch, subject_row, is_clean, summary, assessment>>

ApplySaeRisk ==
    /\ pc \in {"rt_sae", "rt_done"}
    /\ \E sae_df \in SaeReports :
           LET result == ApplySaeRiskOf(subject_states, sae_df)
           IN /\ subject_states' = result.states
              /\ event_bus' = event_bus \o result.events
    /\ pc' = AfterStage("rt_sae", "rt_coding")
    /\ UNCHANGED <<batch, subject_row, is_clean, summary, assessment>>

\* the loop over the coding files at its stage, one call afterwards
ApplyCodingRisk ==
    /\ pc \in {"rt_coding", "rt_done"}
    /\ \E files \in (IF pc = "rt_coding" THEN CodingDirectories
                     ELSE {<<coding_df>> : coding_df \in CodingReports}) :
           LET result == ApplyCodingFiles(subject_states, files)
           IN /\ subject_states' = result.states
              /\ event_bus' = event_bus \o result.events
    /\ pc' = AfterStage("rt_coding", "rt_pages")
    /\ UNCHANGED <<batch, subject_row, is_clean, summary, assessment>>

ApplyMissingPages ==
    /\ pc \in {"rt_pages", "rt_done"}
    /\ \E pages \in PageReports :
           LET result == ApplyMissingPagesOf(subject_states, pages)
           IN /\ subject_states' = result.states
              /\ event_bus' = event_bus \o result.events
    /\ pc' = AfterStage("rt_pages", "rt_inact")
    /\ UNCHANGED <<batch, subject_row, is_clean, summary, assessment>>

ApplyInactivationRisk ==
    /\ pc \in {"rt_inact", "rt_done"}
    /\ \E inact_df \in InactReports :
           LET result == ApplyInactivationRiskOf(subject_states, inact_df)
           IN /\ subject_states' = result.states
              /\ event_bus' = event_bus \o result.events
    /\ pc' = AfterStage("rt_inact", "rt_done")
    /\ UNCHANGED <<batch, subject_row, is_clean, summary, assessment>>

InitRt ==
    /\ BatchIdle
    /\ pc = "rt_start"
    /\ subject_row = <<>>
    /\ is_clean = "not called"
    /\ summary = <<>>
    /\ assessment = <<>>
    /\ subject_states = <<>>
    /\ event_bus = <<>>

NextRt ==
    \/ BuildSubjectStates
    \/ ApplyVisitProjection
    \/ ApplySaeRisk
    \/ ApplyCodingRisk
    \/ ApplyMissingPages
    \/ ApplyInactivationRisk

SpecRt == InitRt /\ [][NextRt]_vars

----------------------------------------------------------------------------
(* Properties of the consolidated table *)

\* load_study_data has returned a table
Loaded == pc \in {"loaded", "metrics", "scored", "rolled", "failed", "reported"}
\* _join_all_metrics has run
Joined == pc \in {"joined"} \/ Loaded
\* the aggregators have run
Aggregated == pc \in {"aggregated"} \/ Joined

SubjectReports(st) == <<st.edc, st.visit, st.pages, st.edrr, st.sae, st.meddra, st.whodd>>

\* the subject identifiers that the loaded reports of a study list
ReportedSubjects(st) ==
    UNION {IF Usable(SubjectReports(st)[k]) THEN SubjectsOf(SubjectReports(st)[k].rows) ELSE {}
              : k \in DOMAIN SubjectReports(st)}

RowsFor(tbl, id) == {i \in DOMAIN tbl : tbl[i].subject_id = AsStr(id)}

\* C1: after load_study_data every subject identifier that occurs in a loaded
\* domain report occurs in exactly one row of the consolidated table.
C1_EverySubjectExactlyOnce ==
    Loaded => \A id \in ReportedSubjects(study) :
                  Cardinality(RowsFor(consolidated, id)) = 1

AllFiveZero(r) ==
    r.missing_visits = 0 /\ r.missing_pages = 0 /\ r.open_queries = 0
    /\ r.pending_sdv = 0 /\ r.open_safety_issues = 0

\* C2: in every row of the table returned by load_study_data, is_clean_patient
\* is true exactly when the five raw metrics are all 0.
C2_CleanIffAllZero ==
    Loaded => \A i \in DOMAIN consolidated :
                  consolidated[i].is_clean_patient <=> AllFiveZero(consolidated[i])

\* C2 witness: a clean row and a row that is not clean, where the visit report
\* is present without a row for the clean subject and the safety report is absent.
C2_Witness ==
    /\ Loaded
    /\ study.sae.st = "absent"
    /\ Usable(study.visit) /\ study.visit.rows # <<>>
    /\ \E i, j \in DOMAIN consolidated :
          /\ consolidated[i].is_clean_patient
          /\ ~consolidated[j].is_clean_patient
          /\ \A k \in DOMAIN study.visit.rows :
                AsStr(study.visit.rows[k].subj) # consolidated[i].subject_id

\* C3: after consolidation each of the five raw metrics of every subject is a
\* non-negative integer, never null.
C3_MetricsNonNegative ==
    Joined => \A i \in DOMAIN consolidated :
                  /\ consolidated[i].missing_visits \in Nat
                  /\ consolidated[i].missing_pages \in Nat
                  /\ consolidated[i].open_queries \in Nat
                  /\ consolidated[i].pending_sdv \in Nat
                  /\ consolidated[i].open_safety_issues \in Nat

\* C4: for every row given to calculate_subject_dqi, an empty component set
\* gives a null dqi_score and risk Unknown, and a non-empty set gives a
\* dqi_score within [0, 100].
C4_DqiDefinedAndInRange ==
    pc = "scored" =>
        \A i \in DOMAIN scored :
            IF scored[i].components = <<>>
            THEN IsNa(scored[i].dqi_score) /\ scored[i].risk_level = "Unknown"
            ELSE /\ ~IsNa(scored[i].dqi_score)
                 /\ QLe(Q0, scored[i].dqi_score[1])
                 /\ QLe(scored[i].dqi_score[1], Q100)

\* the report file that feeds each domain's metric
DomainReport ==
    [missing_visits |-> "visit", missing_pages |-> "pages", open_queries |-> "edrr",
     pending_sdv |-> "edc", open_safety_issues |-> "sae"]

AbsentOrUnusable(rep) == rep.st \in {"absent", "error"} \/ ~rep.hasSubj

\* the study directory without the file of one report
WithoutFile(st, name) == [st EXCEPT ![name].st = "absent"]

\* C5: when the report of a domain is absent or unusable, load_study_data
\* returns the table it returns without that file, with the domain's metric 0
\* for every subject (open_queries also sums the safety and coding reports:
\* for the issue report the zero is that of its own contribution).
C5_UnusableDomainIsZero ==
    pc \in {"nodata", "loaded"} =>
        \A m \in DOMAIN DomainReport :
            AbsentOrUnusable(study[DomainReport[m]]) =>
                LET ref == LoadStudyDataOf(WithoutFile(study, DomainReport[m]))
                IN /\ (pc = "nodata") = ref.none
                   /\ pc = "loaded" =>
                        /\ consolidated = ref.table
                        /\ m # "open_queries" =>
                              \A i \in DOMAIN consolidated : consolidated[i][m] = 0

\* C6: load_study_data returns no table only when no loaded report yields a
\* subject identifier.
C6_NoDataOnlyWithoutSubjects ==
    pc = "nodata" => ReportedSubjects(study) = {}

\* the subject is listed in no domain report and has no SDV value
InNoDomainReport(st, sid) ==
    /\ \A k \in 2..Len(SubjectReports(st)) :
          \A i \in DOMAIN SubjectReports(st)[k].rows :
              AsStr(SubjectReports(st)[k].rows[i].subj) # sid
    /\ ~st.edc.hasSdv

\* C7: a subject on the master roster that appears in no domain report leaves
\* the pipeline with the five metrics 0, clean, every component score 100,
\* dqi_score 100 and risk Low.
C7_UntouchedSubjectScores100 ==
    pc = "scored" =>
        \A i \in DOMAIN scored :
            InNoDomainReport(study, scored[i].row.subject_id) =>
                /\ AllFiveZero(scored[i].row)
                /\ scored[i].row.is_clean_patient
                /\ \A c \in DOMAIN scored[i].components :
                      QEq(scored[i].components[c].score, Q100)
                /\ scored[i].dqi_score = <<Q100>>
                /\ scored[i].risk_level = "Low"

\* the forms listed by a readable inactivated-forms report
ListedInactivated(st) ==
    IF st.inact.st = "ok" /\ st.inact.formCol
    THEN {st.inact.forms[i] : i \in DOMAIN st.inact.forms} ELSE {}

\* the missing-page rows that are not of an inactivated form
Survivors(st) == SelectSeq(st.pages.rows, LAMBDA r : r.form \notin ListedInactivated(st))

\* missing_pages of subject id in the aggregate table, 0 when it has no row
PagesCounted(id) == FillNa(ValueOf(agg.missing_pages, id), 0)

\* the due (subject, visit) pairs: listed in a usable visit projection with a
\* status that is not deferred
DuePairs(st) ==
    IF Usable(st.visit) /\ st.visit.visitCol
    THEN {<<AsStr(st.visit.rows[i].subj), st.visit.rows[i].visit>> :
             i \in {j \in DOMAIN st.visit.rows :
                       ~(st.visit.statusCol
                         /\ Lower(st.visit.rows[j].status) \in FutureStatuses)}}
    ELSE {}

NoSurvivorDue(st) ==
    \A i \in DOMAIN Survivors(st) :
        <<AsStr(Survivors(st)[i].subj), Survivors(st)[i].visit>> \notin DuePairs(st)

\* C8: no missing-page row of an inactivated form is counted: the frame that
\* _aggregate_missing_pages counts holds none, and no subject's missing_pages
\* exceeds the number of its rows of forms that are not inactivated.
C8_InactivatedNeverCounted ==
    Aggregated =>
        /\ \A i \in DOMAIN pages_df : pages_df[i].form \notin ListedInactivated(study)
        /\ \A id \in SubjectIds :
              PagesCounted(id) <= Len(RowsOfSubject(Survivors(study), id))

\* C8 witness: the fallback path is taken while an inactivated row exists: some
\* row is of an inactivated form, due visits exist, surviving rows exist and
\* none is due, and rows are counted.
C8_Witness ==
    /\ Aggregated
    /\ \E i \in DOMAIN study.pages.rows : study.pages.rows[i].form \in ListedInactivated(study)
    /\ DuePairs(study) # {}
    /\ Survivors(study) # <<>>
    /\ NoSurvivorDue(study)
    /\ pages_df # <<>>

IssueContribution(st, sid) ==
    LET rs == SelectSeq(st.edrr.rows, LAMBDA r : AsStr(r.subj) = sid)
        filled == SelectSeq(rs, LAMBDA r : r.cnt.k # "blank")
    IN IF ~Usable(st.edrr) \/ rs = <<>> THEN 0
       ELSE IF ~st.edrr.hasCount THEN Len(rs)
       ELSE IF filled = <<>> \/ filled[1].cnt.k # "num" THEN 0
       ELSE filled[1].cnt.n

SafetyContribution(st, sid) ==
    IF Usable(st.sae) THEN Len(SelectSeq(st.sae.rows, LAMBDA r : AsStr(r.subj) = sid)) ELSE 0

CodingContribution(st, sid) ==
    LET uncoded(rep) ==
            IF Usable(rep) /\ rep.hasStatus
            THEN Len(SelectSeq(rep.rows, LAMBDA r : AsStr(r.subj) = sid
                                                     /\ r.status # "Coded Term"))
            ELSE 0
    IN uncoded(st.meddra) + uncoded(st.whodd)

\* C10: open_queries of every subject is the sum of the issue-report
\* contribution, the safety-dashboard row count and the uncoded coding rows.
C10_OpenQueriesIsSumOfThree ==
    Loaded => \A i \in DOMAIN consolidated :
                  consolidated[i].open_queries =
                      IssueContribution(study, consolidated[i].subject_id)
                      + SafetyContribution(study, consolidated[i].subject_id)
                      + CodingContribution(study, consolidated[i].subject_id)

----------------------------------------------------------------------------
(* Properties of the scores *)

\* the canonical weight of a component, 0 for a name the weight table lacks
CanonicalWeight(name) ==
    IF name \in DOMAIN DqiWeights THEN Q(DqiWeights[name], 100) ELSE Q0

\* the average of the component scores weighted by the canonical table alone
CanonicalAverage(cs) ==
    QDiv(QSum([i \in DOMAIN cs |-> QMul(cs[i].score, CanonicalWeight(cs[i].name))]),
         QSum([i \in DOMAIN cs |-> CanonicalWeight(cs[i].name)]))

\* C11: dqi_score is the average of the present component scores, each weighted
\* by its entry in the canonical weight table, the weights rescaled to sum to 1.
C11_WeightedByCanonicalTable ==
    pc = "scored" =>
        \A i \in DOMAIN scored :
            scored[i].components # <<>> =>
                /\ \A c \in DOMAIN scored[i].components :
                      scored[i].components[c].name \in DOMAIN DqiWeights
                /\ scored[i].dqi_score = <<Round2(CanonicalAverage(scored[i].components))>>

\* the tier the thresholds 85 and 70 assign to a score, Unknown for no score
TierOf(dqi) ==
    IF IsNa(dqi) THEN "Unknown"
    ELSE IF ~QLt(dqi[1], QInt(85)) THEN "Low"
    ELSE IF ~QLt(dqi[1], QInt(70)) THEN "Medium"
    ELSE "High"

ScoredAlone(r) == SubjectDqiOf(SubjectMetricsOf(<<r>>))[1]

\* C13: the dqi_score and risk_level of a subject depend on that subject's own
\* raw metrics only: they are those the same subject gets in a study of its own.
C13_ScoreOfOwnMetricsOnly ==
    pc = "scored" =>
        \A i \in DOMAIN scored :
            /\ scored[i].dqi_score = ScoredAlone(consolidated[i]).dqi_score
            /\ scored[i].risk_level = ScoredAlone(consolidated[i]).risk_level

\* the rows of the subjects of one site
SiteMembers(tbl, site) == {i \in DOMAIN tbl : tbl[i].site_id = <<site>>}

\* the sum of one metric over a set of rows of a table
RECURSIVE TotalOver(_, _, _)
TotalOver(tbl, rows, metric) ==
    IF rows = {} THEN 0
    ELSE LET i == CHOOSE j \in rows : TRUE
         IN tbl[i][metric] + TotalOver(tbl, rows \ {i}, metric)

\* 100 - weighted / n limited to [0, 100], as a fraction over n
LimitedScore(n, weighted) ==
    Q(IF weighted > 100 * n THEN 0 ELSE IF weighted < 0 THEN 100 * n ELSE 100 * n - weighted, n)

\* C15: the site table has one row for every site_id, with the number of the
\* site's subjects, the sums of their missing visits, missing pages and open
\* queries, and performance_score = 100 - (2*visits + pages + 3*queries) /
\* subject_count limited to [0, 100].
C15_SiteRollup ==
    pc \in {"metrics", "scored"} =>
        \A site \in {"A", "B"} :
            LET members == SiteMembers(consolidated, site)
                rows == {k \in DOMAIN site_metrics : site_metrics[k].site_id = site}
                v == TotalOver(consolidated, members, "missing_visits")
                p == TotalOver(consolidated, members, "missing_pages")
                q == TotalOver(consolidated, members, "open_queries")
            IN IF members = {} THEN rows = {}
               ELSE /\ Cardinality(rows) = 1
                    /\ \A k \in rows :
                          /\ site_metrics[k].subject_count = Cardinality(members)
                          /\ site_metrics[k].total_missing_visits = v
                          /\ site_metrics[k].total_missing_pages = p
                          /\ site_metrics[k].total_open_queries = q
                          /\ site_metrics[k].performance_score =
                                LimitedScore(Cardinality(members), 2 * v + p + 3 * q)

\* C15 witness: a site of two subjects with missing_visits 0 and 4 and no other
\* finding has total_missing_visits 4 and performance_score 96.
C15_Witness ==
    /\ pc = "metrics"
    /\ Len(consolidated) = 2
    /\ {consolidated[1].missing_visits, consolidated[2].missing_visits} = {0, 4}
    /\ \E k \in DOMAIN site_metrics :
          /\ site_metrics[k].subject_count = 2
          /\ site_metrics[k].total_missing_visits = 4
          /\ site_metrics[k].total_missing_pages = 0
          /\ site_metrics[k].total_open_queries = 0
          /\ site_metrics[k].performance_score = QInt(96)

\* the rows of the scored table whose dqi_score is defined
DefinedRows == {i \in DOMAIN scored : ~IsNa(scored[i].dqi_score)}

DqiAt(i) == scored[i].dqi_score[1]

\* the k-th smallest defined score
KthSmallest(k) ==
    DqiAt(CHOOSE i \in DefinedRows :
             /\ Cardinality({j \in DefinedRows : QLt(DqiAt(j), DqiAt(i))}) < k
             /\ k <= Cardinality({j \in DefinedRows : QLe(DqiAt(j), DqiAt(i))}))

RECURSIVE TotalDqi(_)
TotalDqi(rows) ==
    IF rows = {} THEN Q0
    ELSE LET i == CHOOSE j \in rows : TRUE IN QAdd(DqiAt(i), TotalDqi(rows \ {i}))

\* C16: calculate_study_dqi returns the mean, median, minimum and maximum of
\* the defined dqi_score values, subjects without a score left out, and four
\* undefined statistics when no subject has a score.
C16_StudyStatisticsOverDefined ==
    pc \in {"rolled", "failed"} =>
        /\ ~study_dqi.raised
        /\ LET n == Cardinality(DefinedRows)
           IN IF n = 0
              THEN /\ IsNa(study_dqi.overall_dqi) /\ IsNa(study_dqi.median_dqi)
                   /\ IsNa(study_dqi.min_dqi) /\ IsNa(study_dqi.max_dqi)
              ELSE /\ study_dqi.overall_dqi = <<QDiv(TotalDqi(DefinedRows), QInt(n))>>
                   /\ study_dqi.median_dqi =
                        <<QDiv(QAdd(KthSmallest((n + 1) \div 2), KthSmallest(n \div 2 + 1)),
                               QInt(2))>>
                   /\ study_dqi.min_dqi = <<KthSmallest(1)>>
                   /\ study_dqi.max_dqi = <<KthSmallest(n)>>

ExactCandidates(header) ==
    LET trimmed == StrLower(Strip(header))
    IN {k \in DOMAIN ColumnMappings :
          \E v \in DOMAIN ColumnMappings[k].variations :
              StrLower(ColumnMappings[k].variations[v]) = trimmed}

ContainedCandidates(header) ==
    LET trimmed == StrLower(Strip(header))
    IN {k \in DOMAIN ColumnMappings :
          \E v \in DOMAIN ColumnMappings[k].variations :
              /\ Len(ColumnMappings[k].variations[v]) > 3
              /\ Contains(trimmed, StrLower(ColumnMappings[k].variations[v]))}

FirstDeclared(candidates) ==
    ColumnMappings[CHOOSE k \in candidates : \A j \in candidates : k <= j].name

\* the name the two-pass resolver owes a header
Resolved(header) ==
    LET exact == ExactCandidates(header)
        contained == ContainedCandidates(header)
    IN IF exact # {} THEN FirstDeclared(exact)
       ELSE IF contained # {} THEN FirstDeclared(contained)
       ELSE header

Trimmed(txt) == Strip(txt)

\* the rows of a report whose identifier denotes the subject of the roster row
RowsDenoting(rep, txt) ==
    IF Usable(rep)
    THEN {i \in DOMAIN rep.rows : Trimmed(AsStr(rep.rows[i].subj)) = Trimmed(txt)}
    ELSE {}

\* C18: the roster has one row per subject identifier compared as trimmed
\* text: identifiers that differ only in surrounding whitespace give one row,
\* and that row carries the aggregate of all the rows that denote its subject.
C18_OneRowPerTrimmedId ==
    Loaded =>
        /\ \A i, j \in DOMAIN consolidated :
              Trimmed(consolidated[i].subject_id) = Trimmed(consolidated[j].subject_id)
                  => i = j
        /\ \A i \in DOMAIN consolidated :
              consolidated[i].missing_visits
                  = Cardinality(RowsDenoting(study.visit, consolidated[i].subject_id))

\* the reports other than the primary one
SecondaryReports(st) == <<st.visit, st.pages, st.edrr, st.sae, st.meddra, st.whodd>>

\* the subjects of the secondary reports that were read with a subject column
SecondarySubjects(st) ==
    UNION {IF Usable(SecondaryReports(st)[i]) THEN SubjectsOf(SecondaryReports(st)[i].rows)
           ELSE {} : i \in DOMAIN SecondaryReports(st)}

\* C19: without the primary report the roster is the union of the subjects of
\* every report that was read, coding reports included, one row per subject.
C19_FallbackIsUnionOfAllReports ==
    (pc # "start" /\ study.edc.st = "absent" /\ SecondarySubjects(study) # {}) =>
        /\ ~subject_master.none
        /\ {subject_master.rows[i].subject_id : i \in DOMAIN subject_master.rows}
              = SecondarySubjects(study)
        /\ Len(subject_master.rows) = Cardinality(SecondarySubjects(study))

\* the rows of the site table below the threshold, and the scored rows at High
SitesBelowThreshold ==
    SelectSeq(site_metrics, LAMBDA r : QLt(r.performance_score, QInt(SiteRiskThreshold)))

SubjectsAtHigh == SelectSeq(scored, LAMBDA r : r.risk_level = "High")

\* C20: the report holds one record per site below the threshold and one per
\* subject at High, none else; the record names its site or subject by the
\* identifier of the pipeline's table and has a factor list that is not empty.
C20_RecordsIdentifyFlaggedEntities ==
    pc = "reported" =>
        /\ Len(risk_report.high_risk_sites) = Len(SitesBelowThreshold)
        /\ \A i \in DOMAIN SitesBelowThreshold :
              /\ risk_report.high_risk_sites[i].entity_id = SitesBelowThreshold[i].site_id
              /\ risk_report.high_risk_sites[i].risk_factors # <<>>
        /\ Len(risk_report.high_risk_subjects) = Len(SubjectsAtHigh)
        /\ \A i \in DOMAIN SubjectsAtHigh :
              /\ risk_report.high_risk_subjects[i].entity_id = SubjectsAtHigh[i].row.subject_id
              /\ risk_report.high_risk_subjects[i].risk_factors # <<>>

\* the site rollup of the run exists from the metrics calculation on
RollupComputed == pc \in {"metrics", "scored", "rolled", "failed", "reported"}

\* the subject table has passed the scoring engine
ScoringDone == pc \in {"scored", "rolled", "failed", "reported"}

\* all_metrics[study]["subject_metrics"]: the metrics table, replaced by the
\* scored table when calculate_subject_dqi returns
SubjectTable == IF ScoringDone THEN scored ELSE subject_metrics

\* C21: the site rollup is computed only from a subject table the scoring
\* engine has finalized, and once the rollup exists no step changes or replaces
\* the subject table.
C21_SubjectTableFinalBeforeRollup ==
    [][RollupComputed => (ScoringDone /\ SubjectTable' = SubjectTable)]_vars

\* a criteria metric of a row with an absent, null or non-numeric value taken as 0
Coerced(row, col) ==
    IF col \notin DOMAIN row THEN 0
    ELSE IF row[col].k = "num" THEN row[col].n
    ELSE 0

\* C22: assess_clean_patient_status returns true exactly when each of the five
\* criteria metrics, with an absent, null or non-numeric value taken as 0, is 0.
C22_CleanIffAllCoercedZero ==
    pc = "assessed" =>
        (is_clean = TRUE <=>
            \A col \in {"missing_visits", "missing_pages", "open_queries", "pending_sdv",
                        "open_safety_issues"} : Coerced(subject_row, col) = 0)

\* the surviving missing-page rows of subject id whose (subject, visit) pair is due
DueSurvivors(st, id) ==
    SelectSeq(Survivors(st),
              LAMBDA r : r.subj = id /\ <<AsStr(r.subj), r.visit>> \in DuePairs(st))

ColumnTotal(tbl, col) == SumOf([i \in DOMAIN tbl |-> tbl[i][col]])

\* C25: the site rollup conserves the study: its subject_count values sum to
\* the number of rows of the consolidated table and each total_* column sums to
\* the study-wide total of its metric, also for a roster without site_id.
C25_SiteRollupConservesStudy ==
    RollupComputed =>
        /\ ColumnTotal(site_metrics, "subject_count") = Len(consolidated)
        /\ ColumnTotal(site_metrics, "total_missing_visits")
              = ColumnTotal(consolidated, "missing_visits")
        /\ ColumnTotal(site_metrics, "total_missing_pages")
              = ColumnTotal(consolidated, "missing_pages")
        /\ ColumnTotal(site_metrics, "total_open_queries")
              = ColumnTotal(consolidated, "open_queries")

\* the synonyms of the synonym table
Variants ==
    UNION {Range(ColumnMappings[k].variations) : k \in DOMAIN ColumnMappings}

\* C29: two distinct headers of one table that are synonyms of the table are
\* never mapped to the same standard name.
C29_NoTwoHeadersToOneName ==
    pc = "standardized" =>
        \A i, j \in DOMAIN df_columns :
            (df_columns[i] # df_columns[j] /\ {df_columns[i], df_columns[j]} \subseteq Variants)
                => std_columns[i] # std_columns[j]

\* C30: the readiness assessment of a study summary returns without raising, and
\* reports ready only with no blocking issue and an overall score of at least 70.
C30_ReadinessIsTotal ==
    pc = "assessed" =>
        /\ assessment.outcome = "returned"
        /\ assessment.ready =>
               (assessment.blocking_issues = <<>> /\ assessment.overall_score >= 70)

\* the events a step appends to the event bus
NewEvents == SubSeq(event_bus', Len(event_bus) + 1, Len(event_bus'))

\* an event is appended only for a subject whose state the step changes
EventOnlyOnChange ==
    pc # "rt_start" =>
        \A i \in DOMAIN NewEvents :
            /\ NewEvents[i].subject_id \in DOMAIN subject_states
            /\ subject_states'[NewEvents[i].subject_id] # subject_states[NewEvents[i].subject_id]

\* no two events of the bus have the same type and subject
OneEventPerDomain ==
    \A i, j \in DOMAIN event_bus :
        (i # j) => <<event_bus[i].type, event_bus[i].subject_id>>
                       # <<event_bus[j].type, event_bus[j].subject_id>>

\* the second of two calls with one report changes nothing and emits nothing
Settled(once, twice) == twice = NoChange(once.states)

ReapplyingIsNoOp ==
    /\ \A r \in VisitReports :
           LET once == ApplyVisitProjectionOf(subject_states, r)
           IN Settled(once, ApplyVisitProjectionOf(once.states, r))
    /\ \A r \in SaeReports :
           LET once == ApplySaeRiskOf(subject_states, r)
           IN Settled(once, ApplySaeRiskOf(once.states, r))
    /\ \A r \in CodingReports :
           LET once == ApplyCodingRiskOf(subject_states, r)
           IN Settled(once, ApplyCodingRiskOf(once.states, r))
    /\ \A r \in PageReports :
           LET once == ApplyMissingPagesOf(subject_states, r)
           IN Settled(once, ApplyMissingPagesOf(once.states, r))
    /\ \A r \in InactReports :
           LET once == ApplyInactivationRiskOf(subject_states, r)
           IN Settled(once, ApplyInactivationRiskOf(once.states, r))

\* C24: an apply_* call emits an event for a subject only when it changes that
\* subject's state, a subject gets at most one event per domain over any sequence
\* of calls, and a second call with the same report emits nothing and changes nothing.
C24_EventsOnlyOnFirstEntry ==
    /\ [](OneEventPerDomain /\ ReapplyingIsNoOp)
    /\ [][EventOnlyOnChange]_vars

\* every domain has flagged the enrolled subject once and calls go on
C24_Witness ==
    /\ pc = "rt_done"
    /\ {event_bus[i].type : i \in DOMAIN event_bus}
           = {"VISIT_OVERDUE", "SAE_PENDING", "CODING_BACKLOG", "MISSING_PAGES",
              "INACTIVATED_FORM"}
    /\ \A i \in DOMAIN event_bus : event_bus[i].subject_id = Enrolled

\* the coding fields of the subject states
CodingView(states) ==
    [id \in DOMAIN states |->
        [uncoded_terms |-> states[id].uncoded_terms,
         dqi |-> states[id].dqi,
         clean |-> states[id].clean]]

\* the step is the coding stage with the two reports in this order
CodingStageWith(first, second) ==
    LET result == ApplyCodingFiles(subject_states, <<first, second>>)
    IN /\ pc = "rt_coding"
       /\ pc' = "rt_pages"
       /\ subject_states' = result.states
       /\ event_bus' = event_bus \o result.events

\* C26: the subject states (uncoded_terms, dqi, clean) and the CODING_BACKLOG events
\* after the coding stage are the same for both orders of the two coding reports.
C26_CodingOrderIrrelevant ==
    [][\A a, b \in CodingReports :
          CodingStageWith(a, b) =>
              LET other == ApplyCodingFiles(subject_states, <<b, a>>)
              IN /\ CodingView(other.states) = CodingView(subject_states')
                 /\ Range(other.events) = Range(NewEvents)]_vars

\* C27: no step raises a subject's dqi, and no step makes a subject clean whose
\* clean flag was false.
C27_DqiNeverIncreases ==
    [][pc # "rt_start" =>
          \A id \in DOMAIN subject_states :
              /\ subject_states'[id].dqi[1] <= subject_states[id].dqi[1]
              /\ (subject_states[id].clean = <<FALSE>>)
                     => (subject_states'[id].clean = <<FALSE>>)]_vars

\* all findings of a subject state are zero and no SAE is pending
NoFindings(state) ==
    /\ state.missing_visits = 0
    /\ state.missing_pages = 0
    /\ state.total_queries = 0
    /\ state.uncoded_terms = 0
    /\ state.overdue_signatures = 0
    /\ ~state.pending_sae

\* C28: every subject state has 0 <= dqi <= 100 and is clean exactly when it has
\* no finding.
C28_DqiInRangeAndCleanIffNoFindings ==
    \A id \in DOMAIN subject_states :
        /\ subject_states[id].dqi[1] >= 0
        /\ subject_states[id].dqi[1] <= 100
        /\ (subject_states[id].clean = <<TRUE>>) <=> NoFindings(subject_states[id])

====
